---- MODULE Spec2Model ----
(***************************************************************************)
(* A model of the subtitle library `subparse`: the non-destructive         *)
(* parsers of the text formats (SubRip, SubStation Alpha, VobSub .idx,     *)
(* MicroDVD), the VobSub adapter, and the entry protocol                   *)
(* get_subtitle_entries / update_subtitle_entries / to_data.               *)
(*                                                                         *)
(* A text is a sequence of characters, each character a one-character      *)
(* string; the bytes of a byte order mark are the strings "xEF", "xBB",    *)
(* "xBF", "xFE", "xFF". A time is an integer number of milliseconds.       *)
(***************************************************************************)
EXTENDS Integers, Sequences, FiniteSets, TLC

VARIABLES
    format,     \* which SubtitleFile variant the run is about
    fps,        \* MdvdFile.fps (frames per second), 0 for the other formats
    input,      \* the text handed to the parser
    pc,         \* "input", "parsed", "error" (parse returned Err), "panic"
    v,          \* the file's parts (SrtFile.v, SsaFile.v, IdxFile.v) or records (MdvdFile.v)
    nUpd,       \* number of update_subtitle_entries calls that returned
    last        \* the last operation: its name, argument, result, and the file before it

vars == <<format, fps, input, pc, v, nUpd, last>>

----------------------------------------------------------------------------
(* Characters and texts                                                    *)

Digits == {"0", "1", "2", "3", "4", "5", "6", "7", "8", "9"}

DigitVal(c) ==
    CASE c = "0" -> 0 [] c = "1" -> 1 [] c = "2" -> 2 [] c = "3" -> 3
      [] c = "4" -> 4 [] c = "5" -> 5 [] c = "6" -> 6 [] c = "7" -> 7
      [] c = "8" -> 8 [] c = "9" -> 9

DigitChar(d) == <<"0", "1", "2", "3", "4", "5", "6", "7", "8", "9">>[d + 1]

Take(s, n) == SubSeq(s, 1, n)
Drop(s, n) == SubSeq(s, n + 1, Len(s))

StartsWith(s, p) == Len(s) >= Len(p) /\ Take(s, Len(p)) = p
EndsWith(s, p) == Len(s) >= Len(p) /\ Drop(s, Len(s) - Len(p)) = p

\* Length of the longest prefix of s whose characters all lie in S (combine's
\* many(satisfy)): the position before the first character outside of S.
Span(s, S) ==
    (CHOOSE i \in 1..(Len(s) + 1) :
        /\ IF i > Len(s) THEN TRUE ELSE s[i] \notin S
        /\ \A j \in 1..(i - 1) : s[j] \in S) - 1

\* Length of the longest prefix of s with no character in S.
SpanNot(s, S) ==
    (CHOOSE i \in 1..(Len(s) + 1) :
        /\ IF i > Len(s) THEN TRUE ELSE s[i] \in S
        /\ \A j \in 1..(i - 1) : s[j] \notin S) - 1

RECURSIVE Concat(_)
Concat(ss) == IF ss = <<>> THEN <<>> ELSE Head(ss) \o Concat(Tail(ss))

\* Rust's integer division and remainder truncate toward zero.
TruncDiv(a, b) == IF a >= 0 THEN a \div b ELSE -((-a) \div b)
TruncRem(a, b) == a - b * TruncDiv(a, b)

RECURSIVE NatToStr(_)
NatToStr(n) == IF n < 10 THEN <<DigitChar(n)>> ELSE NatToStr(n \div 10) \o <<DigitChar(n % 10)>>

\* i64::to_string
IntToStr(n) == IF n < 0 THEN <<"-">> \o NatToStr(-n) ELSE NatToStr(n)

RECURSIVE Zeros(_)
Zeros(n) == IF n <= 0 THEN <<>> ELSE <<"0">> \o Zeros(n - 1)

\* format!("{:0w}", n): sign-aware zero padding to a total width of w.
FmtPad(n, w) ==
    LET d == NatToStr(IF n < 0 THEN -n ELSE n)
        sign == IF n < 0 THEN <<"-">> ELSE <<>>
    IN sign \o Zeros(w - Len(sign) - Len(d)) \o d

RECURSIVE DigitsVal(_)
DigitsVal(s) == IF s = <<>> THEN 0 ELSE 10 * DigitsVal(Take(s, Len(s) - 1)) + DigitVal(s[Len(s)])

----------------------------------------------------------------------------
(* timetypes.rs                                                            *)

\* Mutant of from_components: milliseconds below zero count as zero.
from_components_clamped(hours_, mins_, secs_, ms) ==
    (IF ms < 0 THEN 0 ELSE ms) + 1000 * (secs_ + 60 * (mins_ + 60 * hours_))

from_components(hours_, mins_, secs_, ms) == ms + 1000 * (secs_ + 60 * (mins_ + 60 * hours_))

\* Mutant of from_mins: a minute of 1000 ms.
from_mins_short(m) == m * 1000

from_mins(m) == m * 1000 * 60

hours(t) == TruncDiv(t, 60 * 60 * 1000)
mins(t) == TruncDiv(t, 60 * 1000)
secs(t) == TruncDiv(t, 1000)
csecs(t) == TruncDiv(t, 10)
mins_comp(t) == TruncRem(mins(t), 60)
secs_comp(t) == TruncRem(secs(t), 60)
csecs_comp(t) == TruncRem(csecs(t), 100)
msecs_comp(t) == TruncRem(t, 1000)

\* Timing::add_assign: self.0 += r.0
add_assign(t, r) == t + r

\* Timing::sub_assign: self.0 += r.0
sub_assign(t, r) == t + r

----------------------------------------------------------------------------
(* formats/common.rs                                                       *)

BOM8 == <<"xEF", "xBB", "xBF">>
BOM16 == <<"xFE", "xFF">>

\* split_bom: the byte order mark (or nothing) and the rest.
split_bom(s) ==
    IF StartsWith(s, BOM8) THEN <<BOM8, Drop(s, 3)>>
    ELSE IF StartsWith(s, BOM16) THEN <<BOM16, Drop(s, 2)>>
    ELSE <<<<>>, s>>

\* ws(): a space or a tab.
ws == {" ", "\t"}

\* The White_Space characters of the texts: what str::trim and str::trim_left remove.
TrimSpace == {" ", "\t", "\f", "\r", "\n"}

str_trim_left(s) == Drop(s, Span(s, TrimSpace))
RECURSIVE str_trim_right(_)
str_trim_right(s) == IF s # <<>> /\ s[Len(s)] \in TrimSpace THEN str_trim_right(Take(s, Len(s) - 1)) ELSE s
str_trim(s) == str_trim_right(str_trim_left(s))

\* The digits of i64::MAX = 9223372036854775807.
MaxI64Digits == <<"9", "2", "2", "3", "3", "7", "2", "0", "3", "6", "8", "5", "4", "7", "7", "5", "8", "0", "7">>

\* Of two digit strings of the same length, a is the greater number.
DigitsGreater(a, b) ==
    \E i \in 1..Len(a) : DigitVal(a[i]) > DigitVal(b[i]) /\ \A j \in 1..(i - 1) : a[j] = b[j]

\* i64::from_str fails on the digit string ds: the number is greater than i64::MAX.
I64Overflow(ds) ==
    LET Significant(z) == Len(z) > 19 \/ (Len(z) = 19 /\ DigitsGreater(z, MaxI64Digits))
    IN Significant(Drop(ds, Span(ds, {"0"})))

\* number_i64: an optional '-' and one or more digits. [ok, val, rest, panic]: the
\* unwrap of the conversion of the digits panics when the conversion fails. (The texts
\* of the model have numbers of at most 9 digits or numbers that fail to convert.)
number_i64(s) ==
    LET neg == s # <<>> /\ s[1] = "-"
        body == IF neg THEN Tail(s) ELSE s
        Number(n) ==
            IF n = 0 THEN [ok |-> FALSE, val |-> 0, rest |-> s, panic |-> FALSE]
            ELSE IF I64Overflow(Take(body, n))
                 THEN [ok |-> FALSE, val |-> 0, rest |-> s, panic |-> TRUE]
            ELSE [ok |-> TRUE, rest |-> Drop(body, n), panic |-> FALSE,
                  val |-> IF neg THEN -DigitsVal(Take(body, n)) ELSE DigitsVal(Take(body, n))]
    IN Number(Span(body, Digits))

\* The numbers of a tuple parser (number_i64(), token(c1), number_i64(), ...): a number,
\* then for each set of seps a character of the set and a number.
\* [ok, v: the numbers, rest, panic]
RECURSIVE Numbers(_, _, _)
Numbers(s, seps, acc) ==
    LET no == [ok |-> FALSE, v |-> acc, rest |-> s, panic |-> FALSE]
        Got(n) ==
            IF ~n.ok THEN [no EXCEPT !.panic = n.panic]
            ELSE IF seps = <<>>
                 THEN [ok |-> TRUE, v |-> Append(acc, n.val), rest |-> n.rest, panic |-> FALSE]
            ELSE IF n.rest = <<>> THEN no
            ELSE IF n.rest[1] \notin Head(seps) THEN no
            ELSE Numbers(Tail(n.rest), Tail(seps), Append(acc, n.val))
    IN Got(number_i64(s))

\* A part of a file: kind, text (Filler, Dialog, Text) and number (times, Index).
Part(k, t, n) == [kind |-> k, text |-> t, num |-> n]
Filler(t) == Part("Filler", t, 0)

\* Mutant of dedup_join: the text of the later part is put before that of the earlier.
dedup_join_reversed(a, b, k) ==
    IF a[Len(a)].kind = k /\ b[1].kind = k
    THEN Append(Take(a, Len(a) - 1), [a[Len(a)] EXCEPT !.text = b[1].text \o @]) \o Tail(b)
    ELSE a \o b

\* dedup_string_parts with an extract_fn that yields the text of the parts of kind k:
\* a part of kind k that follows one of kind k is appended to it. dedup_join is the
\* loop's step at the seam of two stretches a and b of the list that the loop has
\* gone through: the first part of b is appended to the last part of a.
dedup_join(a, b, k) ==
    IF a[Len(a)].kind = k /\ b[1].kind = k
    THEN Append(Take(a, Len(a) - 1), [a[Len(a)] EXCEPT !.text = @ \o b[1].text]) \o Tail(b)
    ELSE a \o b

\* The loop of dedup_string_parts over parts[lo..hi], by halves.
RECURSIVE dedup_from(_, _, _, _)
dedup_from(parts, lo, hi, k) ==
    IF lo > hi THEN <<>>
    ELSE IF lo = hi THEN <<parts[lo]>>
    ELSE dedup_join(dedup_from(parts, lo, (lo + hi) \div 2, k),
                    dedup_from(parts, (lo + hi) \div 2 + 1, hi, k), k)

dedup_string_parts(parts, k) == dedup_from(parts, 1, Len(parts), k)

\* Mutant of get_lines_non_destructive: an empty rest gives one more, empty pair.
RECURSIVE get_lines_with_empty_pair(_)
get_lines_with_empty_pair(rest) ==
    IF rest = <<>> THEN <<<<<<>>, <<>>>>>>
    ELSE LET idx == SpanNot(rest, {"\r", "\n"})
             line == Take(rest, idx)
             r == Drop(rest, idx)
         IN IF r = <<>> THEN <<<<rest, <<>>>>>>
            ELSE IF StartsWith(r, <<"\r", "\n">>)
                 THEN <<<<line, <<"\r", "\n">>>>>> \o get_lines_with_empty_pair(Drop(r, 2))
            ELSE IF r[1] = "\n"
                 THEN <<<<line, <<"\n">>>>>> \o get_lines_with_empty_pair(Drop(r, 1))
            ELSE <<<<line, <<"\r">>>>>> \o get_lines_with_empty_pair(Drop(r, 1))

\* get_lines_non_destructive: the (line, line ending) pairs of s.
RECURSIVE get_lines_non_destructive(_)
get_lines_non_destructive(rest) ==
    IF rest = <<>> THEN <<>>
    ELSE LET idx == SpanNot(rest, {"\r", "\n"})
             line == Take(rest, idx)
             r == Drop(rest, idx)
         IN IF r = <<>> THEN <<<<rest, <<>>>>>>
            ELSE IF StartsWith(r, <<"\r", "\n">>)
                 THEN <<<<line, <<"\r", "\n">>>>>> \o get_lines_non_destructive(Drop(r, 2))
            ELSE IF r[1] = "\n"
                 THEN <<<<line, <<"\n">>>>>> \o get_lines_non_destructive(Drop(r, 1))
            ELSE <<<<line, <<"\r">>>>>> \o get_lines_non_destructive(Drop(r, 1))

\* str::lines: split at \n, a \r before the \n removed, no empty last line.
RECURSIVE str_lines(_)
str_lines(s) ==
    IF s = <<>> THEN <<>>
    ELSE LET idx == SpanNot(s, {"\n"})
             raw == Take(s, idx)
             line == IF raw # <<>> /\ raw[Len(raw)] = "\r" /\ idx < Len(s)
                     THEN Take(raw, Len(raw) - 1) ELSE raw
         IN <<line>> \o str_lines(Drop(s, idx + 1))

----------------------------------------------------------------------------
(* formats/srt.rs: the parser                                              *)

\* A parse result: Ok with the parts (and, inside the SubRip parser, the next parser
\* state), or Err with the error kind and the 0-based line number.
Ok(parts) == [ok |-> TRUE, parts |-> parts, err |-> "", line |-> 0, state |-> ""]
Err(kind, line_num) == [ok |-> FALSE, parts |-> <<>>, err |-> kind, line |-> line_num, state |-> ""]

\* parse_timestamp: number ':' number ':' number ',' number. [ok, val, rest]
SrtParseTimestamp(s) ==
    LET Timestamp(t) ==
            IF ~t.ok THEN [ok |-> FALSE, val |-> 0, rest |-> s, panic |-> t.panic]
            ELSE [ok |-> TRUE, rest |-> t.rest, panic |-> FALSE,
                  val |-> from_components(t.v[1], t.v[2], t.v[3], t.v[4])]
    IN Timestamp(Numbers(s, <<{":"}, {":"}, {","}>>, <<>>))

\* parse_index_line: spaces, a number, spaces, end of line.
parse_index_line(line_num, s) ==
    LET n1 == Span(s, ws)
        IndexLine(num) ==
            LET n2 == Span(num.rest, ws)
            IN IF num.panic THEN Err("panic", line_num)
               ELSE IF num.ok /\ Drop(num.rest, n2) = <<>>
               THEN Ok(<<Filler(Take(s, n1)), Part("Index", <<>>, num.val),
                         Filler(Take(num.rest, n2))>>)
               ELSE Err("ExpectedIndexLine", line_num)
    IN IndexLine(number_i64(Drop(s, n1)))

\* parse_timestamp_line / parse_timespan: spaces, timestamp, spaces, "-->", spaces,
\* timestamp, spaces, end of line.
parse_timestamp_line(line_num, s) ==
    LET n0 == Span(s, ws)
        arrow == <<"-", "-", ">">>
        \* The line after the first timestamp t1, the spaces ws2 and the arrow.
        Timespan(t1, ws2, r4) ==
            LET n4 == Span(r4, ws)
                TimestampLine(t5) ==
                    LET n6 == Span(t5.rest, ws)
                    IN IF t5.panic THEN Err("panic", line_num)
                       ELSE IF t5.ok /\ Drop(t5.rest, n6) = <<>>
                       THEN Ok(<<Filler(Take(s, n0)), Part("TimespanBegin", <<>>, t1.val),
                                 Filler(ws2), Filler(arrow), Filler(Take(r4, n4)),
                                 Part("TimespanEnd", <<>>, t5.val), Filler(Take(t5.rest, n6))>>)
                       ELSE Err("ExpectedTimestampLine", line_num)
            IN TimestampLine(SrtParseTimestamp(Drop(r4, n4)))
        Begin(t1) ==
            LET n2 == Span(t1.rest, ws)
            IN IF t1.panic THEN Err("panic", line_num)
               ELSE IF t1.ok /\ StartsWith(Drop(t1.rest, n2), arrow)
               THEN Timespan(t1, Take(t1.rest, n2), Drop(t1.rest, n2 + 3))
               ELSE Err("ExpectedTimestampLine", line_num)
    IN Begin(SrtParseTimestamp(Drop(s, n0)))

\* next_state_from_emptyline: the parts to append and the next parser state.
next_state_from_emptyline(line_num, line) ==
    LET Index(r) == IF r.ok THEN [r EXCEPT !.state = "Index"] ELSE r
    IN IF str_trim(line) = <<>> THEN [Ok(<<Filler(line)>>) EXCEPT !.state = "Emptyline"]
       ELSE Index(parse_index_line(line_num, line))

next_state_from_index(line_num, line) ==
    LET Timing(r) == IF r.ok THEN [r EXCEPT !.state = "Timing"] ELSE r
    IN Timing(parse_timestamp_line(line_num, line))

next_state_from_timing_or_dialog(line_num, line) ==
    IF str_trim(line) = <<>> THEN [Ok(<<Filler(line)>>) EXCEPT !.state = "Emptyline"]
    ELSE [Ok(<<Part("Dialog", line, 0)>>) EXCEPT !.state = "Dialog"]

\* The loop of parse_file over the lines from position i on, in parser state `state`
\* with the parts `result` so far. On success .state is the final parser state.
RECURSIVE SrtParseLoop(_, _, _, _)
SrtParseLoop(lines, i, state, result) ==
    LET Step(r) ==
            IF ~r.ok THEN r
            ELSE SrtParseLoop(lines, i + 1, r.state,
                              result \o r.parts \o <<Filler(lines[i][2])>>)
    IN IF i > Len(lines) THEN [Ok(result) EXCEPT !.state = state]
       ELSE Step(CASE state = "Emptyline" -> next_state_from_emptyline(i - 1, lines[i][1])
                   [] state = "Index" -> next_state_from_index(i - 1, lines[i][1])
                   [] OTHER -> next_state_from_timing_or_dialog(i - 1, lines[i][1]))

SrtParseFile(i) ==
    LET File(b) == SrtParseLoop(get_lines_non_destructive(b[2]), 1, "Emptyline", <<Filler(b[1])>>)
    IN File(split_bom(i))

\* Mutant of squash_from: the Filler between the two Dialogs is dropped.
RECURSIVE squash_dropping_filler(_, _)
squash_dropping_filler(result, parts) ==
    IF parts = <<>> THEN result
    ELSE LET file_part == Head(parts)
             n == Len(result)
         IN IF n < 2 THEN squash_dropping_filler(Append(result, file_part), Tail(parts))
            ELSE LET prev == result[n]
                     preprev == result[n - 1]
                 IN IF file_part.kind = "Dialog" /\ preprev.kind = "Dialog" /\ prev.kind = "Filler"
                    THEN squash_dropping_filler(Append(Take(result, n - 2),
                                            Part("Dialog", preprev.text \o file_part.text, 0)),
                                     Tail(parts))
                    ELSE squash_dropping_filler(Append(result, file_part), Tail(parts))

\* squash_dialog_lines: "Dialog, Filler, Dialog" becomes one Dialog.
RECURSIVE squash_from(_, _)
squash_from(result, parts) ==
    IF parts = <<>> THEN result
    ELSE LET file_part == Head(parts)
             n == Len(result)
         IN IF n < 2 THEN squash_from(Append(result, file_part), Tail(parts))
            ELSE LET prev == result[n]
                     preprev == result[n - 1]
                 IN IF file_part.kind = "Dialog" /\ preprev.kind = "Dialog" /\ prev.kind = "Filler"
                    THEN squash_from(Append(Take(result, n - 2),
                                            Part("Dialog", preprev.text \o prev.text \o file_part.text, 0)),
                                     Tail(parts))
                    ELSE squash_from(Append(result, file_part), Tail(parts))

squash_dialog_lines(parts) == squash_from(<<>>, dedup_string_parts(parts, "Dialog"))

\* SrtFile::new
SrtNew(parts) == squash_dialog_lines(dedup_string_parts(parts, "Filler"))

\* SrtFile::parse_from_string
SrtParse(s) ==
    LET File(r) == IF r.ok THEN Ok(SrtNew(r.parts)) ELSE r
    IN File(SrtParseFile(s))

\* The timestamp format of SrtFile::to_data.
SrtTimeToStr(t) ==
    FmtPad(hours(t), 2) \o <<":">> \o FmtPad(mins_comp(t), 2) \o <<":">>
        \o FmtPad(secs_comp(t), 2) \o <<",">> \o FmtPad(msecs_comp(t), 3)

SrtPartToStr(part) ==
    CASE part.kind \in {"Filler", "Dialog"} -> part.text
      [] part.kind = "Index" -> IntToStr(part.num)
      [] OTHER -> SrtTimeToStr(part.num)

RECURSIVE SrtToData(_)
SrtToData(parts) == IF parts = <<>> THEN <<>> ELSE SrtPartToStr(Head(parts)) \o SrtToData(Tail(parts))

\* Mutant of create_parts: the index is written as enumerate() counts it, from 0.
create_parts_from_zero(i, ts) ==
    << Filler(IntToStr(i) \o <<"\n">>), Part("TimespanBegin", <<>>, ts.start),
       Filler(<<" ", "-", "-", ">", " ">>), Part("TimespanEnd", <<>>, ts.end),
       Filler(<<"\n">>), Part("Dialog", ts.line, 0), Filler(<<"\n", "\n">>) >>

\* The parts that the loop of SrtFile::create pushes for the pair ts = (timespan, line)
\* that enumerate() counts as i.
create_parts(i, ts) ==
    << Filler(IntToStr(i + 1) \o <<"\n">>), Part("TimespanBegin", <<>>, ts.start),
       Filler(<<" ", "-", "-", ">", " ">>), Part("TimespanEnd", <<>>, ts.end),
       Filler(<<"\n">>), Part("Dialog", ts.line, 0), Filler(<<"\n", "\n">>) >>

\* SrtFile::create: the parts of all pairs, in order; SrtFile::new is not called.
SrtCreate(pairs) == Concat([k \in 1..Len(pairs) |-> create_parts(k - 1, pairs[k])])

----------------------------------------------------------------------------
(* SubtitleEntry and the entry protocol of SrtFile                         *)

None == [some |-> FALSE, text |-> <<>>]
Some(t) == [some |-> TRUE, text |-> t]

\* SubtitleEntry { timespan: TimeSpan { start, end }, line: Option<String> }
Entry(s, e, l) == [start |-> s, end |-> e, line |-> l]

\* get_subtitle_entries_mut (SrtFile and SsaFile): one step of the filter_map closure.
\* st = [sb, eb: position of the buffered start and end part or 0, refs, panic].
EntriesMutStep(st, parts, i, startKind, endKind, textKind) ==
    LET k == parts[i].kind
    IN IF st.panic THEN st
       ELSE IF k = startKind
            THEN IF st.sb # 0 THEN [st EXCEPT !.panic = TRUE] ELSE [st EXCEPT !.sb = i]
       ELSE IF k = endKind
            THEN IF st.eb # 0 THEN [st EXCEPT !.panic = TRUE] ELSE [st EXCEPT !.eb = i]
       ELSE IF k = textKind
            THEN IF st.sb = 0 \/ st.eb = 0 THEN [st EXCEPT !.panic = TRUE]
                 ELSE [st EXCEPT !.sb = 0, !.eb = 0,
                                 !.refs = Append(@, [s |-> st.sb, e |-> st.eb, d |-> i])]
       ELSE st

RECURSIVE EntriesMutLoop(_, _, _, _, _, _)
EntriesMutLoop(st, parts, i, startKind, endKind, textKind) ==
    IF st.panic \/ i > Len(parts) THEN st
    ELSE EntriesMutLoop(EntriesMutStep(st, parts, i, startKind, endKind, textKind),
                        parts, i + 1, startKind, endKind, textKind)

\* The references (positions of start, end and text part) of every entry, or a panic
\* when an assertion of the function fails.
EntriesMut(parts, startKind, endKind, textKind) ==
    LET End(st) == [st EXCEPT !.panic = st.panic \/ st.sb # 0 \/ st.eb # 0]
    IN End(EntriesMutLoop([sb |-> 0, eb |-> 0, refs |-> <<>>, panic |-> FALSE],
                          parts, 1, startKind, endKind, textKind))

SrtGetSubtitleEntriesMut(parts) == EntriesMut(parts, "TimespanBegin", "TimespanEnd", "Dialog")

\* A call result: what the call did ("ok", "err", "panic"), the file after it, and the
\* value it returned.
Result(what, file, val) == [res |-> what, file |-> file, val |-> val]

\* get_subtitle_entries of the formats that keep start, end and text parts.
PartsGetEntries(parts, m) ==
    IF m.panic THEN Result("panic", parts, <<>>)
    ELSE Result("ok", parts,
                [i \in 1..Len(m.refs) |->
                    Entry(parts[m.refs[i].s].num, parts[m.refs[i].e].num, Some(parts[m.refs[i].d].text))])

\* Mutant of PartsWriteEntries: the text is written whether or not new[i].line is Some.
RECURSIVE PartsWriteEntriesAnyLine(_, _, _, _)
PartsWriteEntriesAnyLine(parts, refs, new, i) ==
    IF i > Len(refs) \/ i > Len(new) THEN parts
    ELSE LET r == refs[i]
         IN PartsWriteEntriesAnyLine([parts EXCEPT ![r.s].num = new[i].start, ![r.e].num = new[i].end,
                                                   ![r.d].text = new[i].line.text],
                                     refs, new, i + 1)

\* Mutant of PartsWriteEntries: the text is written to the part before the start time.
RECURSIVE PartsWriteEntriesBeforeStart(_, _, _, _)
PartsWriteEntriesBeforeStart(parts, refs, new, i) ==
    IF i > Len(refs) \/ i > Len(new) THEN parts
    ELSE LET r == refs[i]
             p1 == [parts EXCEPT ![r.s].num = new[i].start, ![r.e].num = new[i].end]
             p2 == IF new[i].line.some THEN [p1 EXCEPT ![r.s - 1].text = new[i].line.text] ELSE p1
         IN PartsWriteEntriesBeforeStart(p2, refs, new, i + 1)

\* The zip loop of update_subtitle_entries: entry i of the file takes the times of
\* new[i], and its text when new[i].line is Some.
RECURSIVE PartsWriteEntries(_, _, _, _)
PartsWriteEntries(parts, refs, new, i) ==
    IF i > Len(refs) \/ i > Len(new) THEN parts
    ELSE LET r == refs[i]
             p1 == [parts EXCEPT ![r.s].num = new[i].start, ![r.e].num = new[i].end]
             p2 == IF new[i].line.some THEN [p1 EXCEPT ![r.d].text = new[i].line.text] ELSE p1
         IN PartsWriteEntries(p2, refs, new, i + 1)

\* Mutant of PartsUpdateEntries: no assertion on the length of the list.
PartsUpdateEntriesAnyLength(parts, m, new) ==
    IF m.panic THEN Result("panic", parts, <<>>)
    ELSE Result("ok", PartsWriteEntries(parts, m.refs, new, 1), <<>>)

\* update_subtitle_entries of SrtFile and SsaFile.
PartsUpdateEntries(parts, m, new) ==
    IF m.panic \/ Len(m.refs) # Len(new) THEN Result("panic", parts, <<>>)
    ELSE Result("ok", PartsWriteEntries(parts, m.refs, new, 1), <<>>)

SrtGetSubtitleEntries(parts) == PartsGetEntries(parts, SrtGetSubtitleEntriesMut(parts))
SrtUpdateSubtitleEntries(parts, new) == PartsUpdateEntries(parts, SrtGetSubtitleEntriesMut(parts), new)

----------------------------------------------------------------------------
(* formats/idx.rs                                                          *)

IdxKey == <<"t", "i", "m", "e", "s", "t", "a", "m", "p", ":">>

\* IdxFile::parse_timestamp: number ':' number ':' number ':' number, end of input.
IdxParseTimestamp(s) ==
    LET Timestamp(t) ==
            IF ~t.ok \/ t.rest # <<>> THEN [ok |-> FALSE, val |-> 0, rest |-> s, panic |-> t.panic]
            ELSE [ok |-> TRUE, rest |-> <<>>, panic |-> FALSE,
                  val |-> from_components(t.v[1], t.v[2], t.v[3], t.v[4])]
    IN Timestamp(Numbers(s, <<{":"}, {":"}, {":"}>>, <<>>))

\* IdxFile::parse_line: a line that does not start, after white space, with
\* "timestamp:" is a Filler; else spaces, "timestamp:", spaces, digits and colons (the
\* timestamp), and the rest of the line.
IdxParseLine(line_num, s) ==
    LET n1 == Span(s, ws)
        r2 == Drop(s, n1 + Len(IdxKey))
        n2 == Span(r2, ws)
        n3 == Span(Drop(r2, n2), Digits \cup {":"})
        TimestampLine(t) ==
            IF t.panic THEN Err("panic", line_num)
            ELSE IF ~t.ok THEN Err("IdxLineParseError", line_num)
            ELSE Ok(<<Filler(Take(s, n1)), Filler(IdxKey), Filler(Take(r2, n2)),
                      Part("Timestamp", <<>>, t.val), Filler(Drop(r2, n2 + n3))>>)
    IN IF ~StartsWith(str_trim_left(s), IdxKey) THEN Ok(<<Filler(s)>>)
       ELSE IF ~StartsWith(Drop(s, n1), IdxKey) THEN Err("IdxLineParseError", line_num)
       ELSE TimestampLine(IdxParseTimestamp(SubSeq(r2, n2 + 1, n2 + n3)))

RECURSIVE IdxParseLoop(_, _, _)
IdxParseLoop(lines, i, result) ==
    LET Step(r) ==
            IF ~r.ok THEN r
            ELSE IdxParseLoop(lines, i + 1, result \o r.parts \o <<Filler(lines[i][2])>>)
    IN IF i > Len(lines) THEN Ok(result)
       ELSE Step(IdxParseLine(i - 1, lines[i][1]))

\* IdxFile::new
IdxNew(parts) == dedup_string_parts(parts, "Filler")

\* IdxFile::parse_inner
IdxParseInner(i) ==
    LET File(r) == IF r.ok THEN Ok(IdxNew(r.parts)) ELSE r
        Lines(b) == File(IdxParseLoop(get_lines_non_destructive(b[2]), 1, <<Filler(b[1])>>))
    IN Lines(split_bom(i))

\* The timestamps of the file, in file order.
IdxTimings(parts) == SelectSeq(parts, LAMBDA p : p.kind = "Timestamp")

\* IdxFile::get_subtitle_entries: each timestamp up to the next one, the last one up to
\* one minute later.
IdxGetSubtitleEntries(parts) ==
    LET Entries(timings, n) ==
            [i \in 1..n |->
                Entry(timings[i].num,
                      IF i < n THEN timings[i + 1].num ELSE timings[n].num + from_mins(1),
                      None)]
        Timings(timings) == Result("ok", parts, Entries(timings, Len(timings)))
    IN Timings(IdxTimings(parts))

\* The loop of IdxFile::update_subtitle_entries from part i on, count timestamps
\* written so far: a Timestamp part takes ts[count - 1] (0-based), which is outside of
\* ts when count = 0 (count - 1 overflows, or wraps to an index past the end).
RECURSIVE IdxUpdateLoop(_, _, _, _)
IdxUpdateLoop(parts, i, count, ts) ==
    IF i > Len(parts) THEN [panic |-> FALSE, parts |-> parts, count |-> count]
    ELSE IF parts[i].kind = "Filler" THEN IdxUpdateLoop(parts, i + 1, count, ts)
    ELSE IF count - 1 < 0 \/ count - 1 >= Len(ts) THEN [panic |-> TRUE, parts |-> parts, count |-> count]
    ELSE IdxUpdateLoop([parts EXCEPT ![i].num = ts[(count - 1) + 1].start], i + 1, count + 1, ts)

\* IdxFile::update_subtitle_entries
IdxUpdateSubtitleEntries(parts, ts) ==
    LET End(r) ==
            IF r.panic \/ r.count # Len(ts) THEN Result("panic", parts, <<>>)
            ELSE Result("ok", r.parts, <<>>)
    IN End(IdxUpdateLoop(parts, 1, 0, ts))

\* fn_timing_to_string of IdxFile::to_data
IdxTimeToStr(t) ==
    LET Abs(p) ==
            FmtPad(hours(p), 2) \o <<":">> \o FmtPad(mins_comp(p), 2) \o <<":">>
              \o FmtPad(secs_comp(p), 2) \o <<":">> \o FmtPad(msecs_comp(p), 3)
    IN IF t < 0 THEN <<"-">> \o Abs(-t) ELSE Abs(t)

RECURSIVE IdxToData(_)
IdxToData(parts) ==
    IF parts = <<>> THEN <<>>
    ELSE (IF Head(parts).kind = "Filler" THEN Head(parts).text ELSE IdxTimeToStr(Head(parts).num))
            \o IdxToData(Tail(parts))

----------------------------------------------------------------------------
(* formats/ssa.rs                                                          *)

SsaFormatKey == <<"F", "o", "r", "m", "a", "t", ":">>
SsaDialogueKey == <<"D", "i", "a", "l", "o", "g", "u", "e", ":">>

\* str::split(c): the pieces of s between the occurrences of c.
RECURSIVE Split(_, _)
Split(s, c) ==
    LET n == SpanNot(s, {c})
    IN IF n = Len(s) THEN <<s>> ELSE <<Take(s, n)>> \o Split(Drop(s, n + 1), c)

\* The first duplicate of one of the names Start, End, Text among names[i..].
RECURSIVE SsaHasDuplicate(_, _, _)
SsaHasDuplicate(names, i, seen) ==
    IF i > Len(names) THEN FALSE
    ELSE IF names[i] \in seen THEN TRUE
    ELSE SsaHasDuplicate(names, i + 1,
            IF names[i] \in {<<"S", "t", "a", "r", "t">>, <<"E", "n", "d">>, <<"T", "e", "x", "t">>} THEN seen \cup {names[i]} ELSE seen)

\* The 0-based position of name among names, or -1.
IndexOf(names, name) ==
    IF \E i \in 1..Len(names) : names[i] = name
    THEN (CHOOSE i \in 1..Len(names) : names[i] = name) - 1
    ELSE -1

\* SsaFieldsInfo::new_from_fields_info_line. The result carries the SsaFieldsInfo in
\* `parts`; the assertion on the untrimmed line is the error "panic".
new_from_fields_info_line(line_num, s) ==
    LET Info(names, start_field_idx, end_field_idx, text_field_idx) ==
            IF SsaHasDuplicate(names, 1, {}) THEN Err("SsaDuplicateField", line_num)
            ELSE IF text_field_idx = -1 THEN Err("SsaMissingField", line_num)
            ELSE IF text_field_idx # Len(names) - 1 THEN Err("SsaTextFieldNotLast", line_num)
            ELSE IF start_field_idx = -1 \/ end_field_idx = -1
                 THEN Err("SsaMissingField", line_num)
            ELSE Ok([start_field_idx |-> start_field_idx, end_field_idx |-> end_field_idx,
                     text_field_idx |-> text_field_idx, num_fields |-> Len(names)])
        Names(names) ==
            Info(names, IndexOf(names, <<"S", "t", "a", "r", "t">>),
                 IndexOf(names, <<"E", "n", "d">>), IndexOf(names, <<"T", "e", "x", "t">>))
        Fields(fields) == Names([i \in 1..Len(fields) |-> str_trim(fields[i])])
    IN IF ~StartsWith(s, SsaFormatKey) THEN Err("panic", line_num)
       ELSE Fields(Split(Drop(s, Len(SsaFormatKey)), ","))

\* Is the trimmed line a section header like [Events]?
IsSectionHeader(trimmed_line) == StartsWith(trimmed_line, <<"[">>) /\ EndsWith(trimmed_line, <<"]">>)

\* &trimmed_line[1..trimmed_line.len() - 1]
SectionName(trimmed_line) == SubSeq(trimmed_line, 2, Len(trimmed_line) - 1)

SsaEvents == <<"E", "v", "e", "n", "t", "s">>

\* get_format_info: the first line that starts, trimmed, with "Format:" in the section
\* Events, with its 0-based number in `line` and its text in `parts`. The header "["
\* makes the slice [1..0], which panics.
RECURSIVE get_format_info_from(_, _, _)
get_format_info_from(lines, i, section_opt) ==
    LET Line(trimmed_line, header, section) ==
            IF header /\ Len(trimmed_line) = 1 THEN Err("panic", i - 1)
            ELSE IF section = Some(SsaEvents) /\ StartsWith(trimmed_line, SsaFormatKey)
                 THEN [Ok(lines[i]) EXCEPT !.line = i - 1]
            ELSE get_format_info_from(lines, i + 1, section)
        Header(trimmed_line, header) ==
            Line(trimmed_line, header,
                 IF header THEN Some(SectionName(trimmed_line)) ELSE section_opt)
        Trimmed(trimmed_line) == Header(trimmed_line, IsSectionHeader(trimmed_line))
    IN IF i > Len(lines) THEN Err("SsaFieldsInfoNotFound", 0)
       ELSE Trimmed(str_trim(lines[i]))

get_format_info(s) == get_format_info_from(str_lines(s), 1, None)

\* common.rs trim_left: the leading spaces and tabs, and the rest.
trim_left(s) ==
    LET Cut(n) == <<Take(s, n), Drop(s, n)>>
    IN Cut(Span(s, ws))

\* The reverse of a string.
Rev(s) == [i \in 1..Len(s) |-> s[Len(s) + 1 - i]]

\* trim_non_destructive: (leading spaces, the string without them, trailing spaces).
trim_non_destructive(s) ==
    LET Right(l, r) == <<l[1], Rev(r[2]), Rev(r[1])>>
        Left(l) == Right(l, trim_left(Rev(l[2])))
    IN Left(trim_left(s))

\* SsaFile::parse_timepoint: number ':' number ':' number ('.' or ':') number, end of
\* input; the last number counts hundredths of a second.
parse_timepoint(s) ==
    LET Timepoint(t) ==
            IF ~t.ok \/ t.rest # <<>> THEN [ok |-> FALSE, val |-> 0, rest |-> s, panic |-> t.panic]
            ELSE [ok |-> TRUE, rest |-> <<>>, panic |-> FALSE,
                  val |-> from_components(t.v[1], t.v[2], t.v[3], t.v[4] * 10)]
    IN Timepoint(Numbers(s, <<{":"}, {":"}, {".", ":"}>>, <<>>))

\* count(num_fields - 1, (many(none_of(',')), token(','))): up to n fields that end
\* with a comma; a field without its comma is an error when it is not empty.
\* [ok, v: the fields, rest]
RECURSIVE SsaCountFields(_, _, _)
SsaCountFields(n, s, acc) ==
    LET Field(k) ==
            IF n = 0 THEN [ok |-> TRUE, v |-> acc, rest |-> s]
            ELSE IF k < Len(s) THEN SsaCountFields(n - 1, Drop(s, k + 1), Append(acc, Take(s, k)))
            ELSE IF k = 0 THEN [ok |-> TRUE, v |-> acc, rest |-> s]
            ELSE [ok |-> FALSE, v |-> acc, rest |-> s]
    IN Field(SpanNot(s, {","}))

\* SsaFile::parse_fields from field i (0-based) on.
RECURSIVE parse_fields(_, _, _, _)
parse_fields(line_num, fields_info, fv, i) ==
    LET time == i = fields_info.start_field_idx \/ i = fields_info.end_field_idx
        Rest(parts, more) == IF ~more.ok THEN more ELSE Ok(parts \o more.parts)
        Field(t, part) ==
            Rest(<<Filler(t[1]), part, Filler(t[3]), Filler(<<",">>)>>,
                 parse_fields(line_num, fields_info, fv, i + 1))
        Time(t, tp) ==
            IF tp.panic THEN Err("panic", line_num)
            ELSE IF ~tp.ok THEN Err("SsaWrongTimepointFormat", line_num)
            ELSE Field(t, Part(IF i = fields_info.start_field_idx THEN "TimespanStart"
                                ELSE "TimespanEnd", <<>>, tp.val))
        Trimmed(t) ==
            IF time THEN Time(t, parse_timepoint(t[2]))
            ELSE Field(t, IF i = fields_info.text_field_idx THEN Part("Text", t[2], 0)
                          ELSE Filler(t[2]))
    IN IF i >= Len(fv) THEN Ok(<<>>)
       ELSE Trimmed(trim_non_destructive(fv[i + 1]))

\* SsaFile::parse_dialog_line: spaces, "Dialogue:", spaces, the fields before the
\* text, and the text.
parse_dialog_line(line_num, line, fields_info) ==
    LET n1 == Span(line, ws)
        r2 == Drop(line, n1 + Len(SsaDialogueKey))
        n2 == Span(r2, ws)
        Line(c, f) ==
            IF ~f.ok THEN f
            ELSE Ok(<<Filler(Take(line, n1)), Filler(SsaDialogueKey), Filler(Take(r2, n2))>>
                      \o f.parts \o <<Part("Text", c.rest, 0)>>)
        Fields(c) ==
            IF ~c.ok THEN Err("SsaDialogLineParseError", line_num)
            ELSE Line(c, parse_fields(line_num, fields_info, c.v, 0))
    IN IF ~StartsWith(Drop(line, n1), SsaDialogueKey)
       THEN Err("SsaDialogLineParseError", line_num)
       ELSE Fields(SsaCountFields(fields_info.num_fields - 1, Drop(r2, n2), <<>>))

\* SsaFile::parse_dialog_lines from line i on: a section header and a line that is not
\* a Dialogue line of the section Events are Fillers followed by the Filler "\n"; a
\* Dialogue line is parsed and followed by its own line ending.
RECURSIVE parse_dialog_lines_from(_, _, _, _, _)
parse_dialog_lines_from(fields_info, lines, i, section_opt, result) ==
    LET Dialog(d) ==
            IF ~d.ok THEN d
            ELSE parse_dialog_lines_from(fields_info, lines, i + 1, section_opt,
                                         result \o d.parts \o <<Filler(lines[i][2])>>)
        Other(section) ==
            parse_dialog_lines_from(fields_info, lines, i + 1, section,
                                    result \o <<Filler(lines[i][1]), Filler(<<"\n">>)>>)
        Line(trimmed_line) ==
            IF IsSectionHeader(trimmed_line)
            THEN IF Len(trimmed_line) = 1 THEN Err("panic", i - 1)
                 ELSE Other(Some(SectionName(trimmed_line)))
            ELSE IF section_opt = Some(SsaEvents) /\ StartsWith(trimmed_line, SsaDialogueKey)
                 THEN Dialog(parse_dialog_line(i - 1, lines[i][1], fields_info))
            ELSE Other(section_opt)
    IN IF i > Len(lines) THEN Ok(result)
       ELSE Line(str_trim(lines[i][1]))

parse_dialog_lines(fields_info, s) ==
    parse_dialog_lines_from(fields_info, get_lines_non_destructive(s), 1, None, <<>>)

\* SsaFile::new
SsaNew(parts) == dedup_string_parts(parts, "Filler")

\* SsaFile::parse_inner
SsaParseInner(i) ==
    LET File(b, r) == IF ~r.ok THEN r ELSE Ok(SsaNew(<<Filler(b[1])>> \o r.parts))
        Info(b, fi) == IF ~fi.ok THEN fi ELSE File(b, parse_dialog_lines(fi.parts, b[2]))
        Format(b, fl) ==
            IF ~fl.ok THEN fl ELSE Info(b, new_from_fields_info_line(fl.line, fl.parts))
        Text(b) == Format(b, get_format_info(b[2]))
    IN Text(split_bom(i))

SsaGetSubtitleEntriesMut(parts) == EntriesMut(parts, "TimespanStart", "TimespanEnd", "Text")
SsaGetSubtitleEntries(parts) == PartsGetEntries(parts, SsaGetSubtitleEntriesMut(parts))
SsaUpdateSubtitleEntries(parts, new) == PartsUpdateEntries(parts, SsaGetSubtitleEntriesMut(parts), new)

\* fn_timing_to_string of SsaFile::to_data
SsaTimeToStr(t) ==
    LET Abs(p) ==
            IntToStr(hours(p)) \o <<":">> \o FmtPad(mins_comp(p), 2) \o <<":">>
              \o FmtPad(secs_comp(p), 2) \o <<".">> \o FmtPad(csecs_comp(p), 2)
    IN IF t < 0 THEN <<"-">> \o Abs(-t) ELSE Abs(t)

RECURSIVE SsaToData(_)
SsaToData(parts) ==
    IF parts = <<>> THEN <<>>
    ELSE (IF Head(parts).kind \in {"Filler", "Text"} THEN Head(parts).text ELSE SsaTimeToStr(Head(parts).num))
            \o SsaToData(Tail(parts))

----------------------------------------------------------------------------
(* formats/microdvd.rs: the file is the sequence of its MdvdLines          *)

\* char::is_uppercase and char::to_lowercase on the letters of the texts.
UpperCase == {"Y", "C"}
to_lowercase(c) == CASE c = "Y" -> "y" [] c = "C" -> "c" [] OTHER -> c

\* MdvdFormatting::is_container_line_formatting
is_container_line_formatting(f) == f # <<>> /\ f[1] \in UpperCase

\* MdvdFormatting::lowercase_first_char
lowercase_first_char(s) == IF s = <<>> THEN <<>> ELSE <<to_lowercase(s[1])>> \o Tail(s)

\* MdvdLine { start_frame, end_frame, formatting, text }
MdvdLine(start_frame, end_frame, formatting, text) ==
    [start_frame |-> start_frame, end_frame |-> end_frame, formatting |-> formatting, text |-> text]

\* many(sub_info): the contents of the {...} groups at the start of s. [ok, v, rest]
RECURSIVE MdvdSubInfos(_, _)
MdvdSubInfos(s, acc) ==
    LET Info(k) ==
            IF k = Len(s) - 1 THEN [ok |-> FALSE, v |-> acc, rest |-> s]
            ELSE MdvdSubInfos(Drop(s, k + 2), Append(acc, SubSeq(s, 2, k + 1)))
    IN IF s = <<>> \/ s[1] # "{" THEN [ok |-> TRUE, v |-> acc, rest |-> s]
       ELSE Info(SpanNot(Tail(s), {"}"}))

\* sep_by(single_line, char('|')): the (formatting strings, text) pairs of s.
RECURSIVE MdvdSingleLines(_, _)
MdvdSingleLines(s, acc) ==
    LET Line(f, k, one) ==
            IF k = Len(f.rest) THEN [ok |-> TRUE, v |-> one]
            ELSE MdvdSingleLines(Drop(f.rest, k + 1), one)
        Text(f, k) == Line(f, k, Append(acc, [fmts |-> f.v, text |-> Take(f.rest, k)]))
        Infos(f) == IF ~f.ok THEN [ok |-> FALSE, v |-> acc] ELSE Text(f, SpanNot(f.rest, {"|"}))
    IN Infos(MdvdSubInfos(s, <<>>))

\* MdvdFile::string_to_formatting: the formattings of fmts that are (container = TRUE)
\* or are not (FALSE) multi-line formattings, first character in lower case.
string_to_formatting(fmts, container) ==
    LET Lower(sel) == [i \in 1..Len(sel) |-> lowercase_first_char(sel[i])]
    IN Lower(SelectSeq(fmts, LAMBDA f : is_container_line_formatting(f) = container))

\* Mutant of cline_fmts: the multi-line formattings of the single line i only.
cline_fmts_of_one(fl, i) ==
    IF i > Len(fl) THEN <<>> ELSE string_to_formatting(fl[i].fmts, TRUE)

\* The multi-line formattings of all single lines from i on.
RECURSIVE cline_fmts(_, _)
cline_fmts(fl, i) ==
    IF i > Len(fl) THEN <<>> ELSE string_to_formatting(fl[i].fmts, TRUE) \o cline_fmts(fl, i + 1)

\* MdvdFile::construct_mdvd_lines
construct_mdvd_lines(start_frame, end_frame, fmt_strs_and_lines) ==
    LET Lines(cline_fmts_) ==
            [i \in 1..Len(fmt_strs_and_lines) |->
                MdvdLine(start_frame, end_frame,
                         cline_fmts_ \o string_to_formatting(fmt_strs_and_lines[i].fmts, FALSE),
                         fmt_strs_and_lines[i].text)]
    IN Lines(cline_fmts(fmt_strs_and_lines, 1))

\* MdvdFile::parse_line: {start}{end} and the single lines separated by '|'.
MdvdParseLine(line_num, line) ==
    LET no == Err("ExpectedSubtitleLine", line_num)
        Lines(a, b, l) == IF ~l.ok THEN no ELSE Ok(construct_mdvd_lines(a.val, b.val, l.v))
        End(a, b) ==
            IF b.panic THEN Err("panic", line_num)
            ELSE IF ~b.ok \/ ~StartsWith(b.rest, <<"}">>) THEN no
            ELSE Lines(a, b, MdvdSingleLines(Tail(b.rest), <<>>))
        Start(a) ==
            IF a.panic THEN Err("panic", line_num)
            ELSE IF ~a.ok \/ ~StartsWith(a.rest, <<"}", "{">>) THEN no
            ELSE End(a, number_i64(Drop(a.rest, 2)))
    IN IF line = <<>> \/ line[1] # "{" THEN no
       ELSE Start(number_i64(Tail(line)))

\* MdvdFile::parse_file: the lines of str::lines, after the BOM.
RECURSIVE MdvdParseLoop(_, _, _)
MdvdParseLoop(lines, i, result) ==
    LET Step(r) == IF ~r.ok THEN r ELSE MdvdParseLoop(lines, i + 1, result \o r.parts)
    IN IF i > Len(lines) THEN Ok(result)
       ELSE Step(MdvdParseLine(i - 1, lines[i]))

MdvdParseFile(i) == MdvdParseLoop(str_lines(split_bom(i)[2]), 1, <<>>)

\* (frame as f64 * 1000.0 / fps) as i64: the quotient cut towards zero. For the frames
\* and the whole fps of the texts below the f64 quotient is cut to the same integer.
FrameToMsecs(frame, f) == TruncDiv(frame * 1000, f)

\* (t.secs_f64() * fps) as i64: the product cut towards zero. For the times below the
\* f64 product is cut to the same integer.
MsecsToFrame(ms, f) == TruncDiv(ms * f, 1000)

\* MdvdLine::to_subtitle_entry
to_subtitle_entry(line, f) ==
    Entry(FrameToMsecs(line.start_frame, f), FrameToMsecs(line.end_frame, f), Some(line.text))

\* MdvdFile::get_subtitle_entries
MdvdGetSubtitleEntries(f, lines) ==
    Result("ok", lines, [i \in 1..Len(lines) |-> to_subtitle_entry(lines[i], f)])

\* MdvdFile::update_subtitle_entries
MdvdUpdateSubtitleEntries(f, lines, new) ==
    IF Len(new) # Len(lines) THEN Result("panic", lines, <<>>)
    ELSE Result("ok",
                [i \in 1..Len(lines) |->
                    [lines[i] EXCEPT !.start_frame = MsecsToFrame(new[i].start, f),
                                     !.end_frame = MsecsToFrame(new[i].end, f),
                                     !.text = IF new[i].line.some THEN new[i].line.text ELSE @]],
                <<>>)

\* sort_by_key(|line| (line.start_frame, line.end_frame)): the key of a is less.
MdvdKeyLess(a, b) ==
    a.start_frame < b.start_frame \/ (a.start_frame = b.start_frame /\ a.end_frame < b.end_frame)

\* The place of lines[i] in the sorted list: the sort is stable.
MdvdSortedPlace(lines, i) ==
    Cardinality({j \in 1..Len(lines) : MdvdKeyLess(lines[j], lines[i])})
        + Cardinality({j \in 1..i : ~MdvdKeyLess(lines[j], lines[i]) /\ ~MdvdKeyLess(lines[i], lines[j])})

\* sorted_list of MdvdFile::to_data
MdvdSortedList(lines) ==
    [p \in 1..Len(lines) |-> lines[CHOOSE i \in 1..Len(lines) : MdvdSortedPlace(lines, i) = p]]

\* Mutant of MdvdSameKey: the start frames alone are compared.
MdvdSameStart(a, b) == a.start_frame = b.start_frame

\* The keys (line.start_frame, line.end_frame) that group_by compares are equal.
MdvdSameKey(a, b) == a.start_frame = b.start_frame /\ a.end_frame = b.end_frame

\* group_by(|line| (line.start_frame, line.end_frame)): the runs of equal keys of
\* sorted[i..], after the groups acc and the open group cur.
RECURSIVE MdvdGroupBy(_, _, _, _)
MdvdGroupBy(sorted, i, cur, acc) ==
    IF i > Len(sorted) THEN (IF cur = <<>> THEN acc ELSE Append(acc, cur))
    ELSE IF cur = <<>> \/ MdvdSameKey(cur[1], sorted[i])
         THEN MdvdGroupBy(sorted, i + 1, Append(cur, sorted[i]), acc)
    ELSE MdvdGroupBy(sorted, i + 1, <<sorted[i]>>, Append(acc, cur))

\* line.formatting.into_iter().collect::<HashSet<_>>()
FormattingSet(line) == {line.formatting[i] : i \in 1..Len(line.formatting)}

\* common_formatting of a group: nothing for a group of one, else the formattings
\* that every line of the group has.
common_formatting(group) ==
    IF Len(group) = 1 THEN {}
    ELSE {f \in FormattingSet(group[1]) : \A i \in 1..Len(group) : f \in FormattingSet(group[i])}

\* The orders in which the iteration over a HashSet can yield its elements: any.
HashSetOrders(S) ==
    {o \in [1..Cardinality(S) -> S] : \A x \in S : \E i \in 1..Cardinality(S) : o[i] = x}

\* char::to_uppercase on the letters of the texts.
to_uppercase(c) == CASE c = "y" -> "Y" [] c = "c" -> "C" [] OTHER -> c

\* MdvdFormatting::uppercase_first_char
uppercase_first_char(s) == IF s = <<>> THEN <<>> ELSE <<to_uppercase(s[1])>> \o Tail(s)

\* MdvdFormatting::to_formatting_string
to_formatting_string(f, multiline) ==
    IF multiline THEN uppercase_first_char(f) ELSE lowercase_first_char(f)

\* "{" formatting "}" for the formattings in the order o, from position i on.
RECURSIVE MdvdFormattings(_, _, _)
MdvdFormattings(o, i, multiline) ==
    IF i > Len(o) THEN <<>>
    ELSE <<"{">> \o to_formatting_string(o[i], multiline) \o <<"}">> \o MdvdFormattings(o, i + 1, multiline)

\* The single lines of a group from line i on: '|' between them, each with its
\* individual formattings in some order and its text. The set of texts to_data can write.
RECURSIVE MdvdSingleLineTexts(_, _, _)
MdvdSingleLineTexts(group, common, i) ==
    IF i > Len(group) THEN {<<>>}
    ELSE {(IF i # 1 THEN <<"|">> ELSE <<>>) \o MdvdFormattings(o, 1, FALSE) \o group[i].text \o rest :
            o \in HashSetOrders(FormattingSet(group[i]) \ common),
            rest \in MdvdSingleLineTexts(group, common, i + 1)}

\* The texts to_data can write for a group: the frames, the common formattings in
\* some order and the single lines.
MdvdGroupTexts(group) ==
    {<<"{">> \o IntToStr(group[1].start_frame) \o <<"}", "{">> \o IntToStr(group[1].end_frame)
        \o <<"}">> \o MdvdFormattings(o, 1, TRUE) \o body :
        o \in HashSetOrders(common_formatting(group)),
        body \in MdvdSingleLineTexts(group, common_formatting(group), 1)}

\* The groups from group gi on, "\n" between them.
RECURSIVE MdvdFileTexts(_, _)
MdvdFileTexts(groups, gi) ==
    IF gi > Len(groups) THEN {<<>>}
    ELSE {(IF gi # 1 THEN <<"\n">> ELSE <<>>) \o g \o rest :
            g \in MdvdGroupTexts(groups[gi]), rest \in MdvdFileTexts(groups, gi + 1)}

\* MdvdFile::to_data: the set of the texts it can return (one for each order in which
\* the HashSets are iterated).
MdvdToData(lines) == MdvdFileTexts(MdvdGroupBy(MdvdSortedList(lines), 1, <<>>, <<>>), 1)

----------------------------------------------------------------------------
(* formats/vobsub.rs: the file is the record of its data and its lines      *)
(* (VobSubSubtitles). The text stands for the subtitles the vobsub crate    *)
(* decodes from the bytes: pairs of start and end time in sixteenths of a   *)
(* second.                                                                  *)

\* (sub.start_time() * 1000.0) as i64, for a time of t sixteenths of a second.
VobMsecs(t) == TruncDiv(t * 1000, 16)

\* VobFile::parse
VobParse(b) ==
    Ok([data |-> b,
        lines |-> [i \in 1..Len(b) |-> [start |-> VobMsecs(b[i][1]), end |-> VobMsecs(b[i][2])]]])

\* VobFile::get_subtitle_entries
VobGetSubtitleEntries(file) ==
    Result("ok", file, [i \in 1..Len(file.lines) |-> Entry(file.lines[i].start, file.lines[i].end, None)])

\* Mutant of VobUpdateSubtitleEntries: the call returns Ok(()).
VobUpdateAccepting(file, new) == Result("ok", file, <<>>)

\* VobFile::update_subtitle_entries: Err(UpdatingEntriesNotSupported)
VobUpdateSubtitleEntries(file, new) == Result("err", file, <<>>)

\* VobFile::to_data
VobToData(file) == file.data

----------------------------------------------------------------------------
(* Dispatch over the formats: SubtitleFile in formats/mod.rs               *)

ParseStr(fmt, f, s) ==
    CASE fmt = "SubRip" -> SrtParse(s)
      [] fmt = "VobSubIdx" -> IdxParseInner(s)
      [] fmt = "SubStationAlpha" -> SsaParseInner(s)
      [] fmt = "MicroDVD" -> MdvdParseFile(s)
      [] fmt = "VobSubSub" -> VobParse(s)

GetSubtitleEntries(fmt, f, file) ==
    CASE fmt = "SubRip" -> SrtGetSubtitleEntries(file)
      [] fmt = "VobSubIdx" -> IdxGetSubtitleEntries(file)
      [] fmt = "SubStationAlpha" -> SsaGetSubtitleEntries(file)
      [] fmt = "MicroDVD" -> MdvdGetSubtitleEntries(f, file)
      [] fmt = "VobSubSub" -> VobGetSubtitleEntries(file)

UpdateSubtitleEntries(fmt, f, file, new) ==
    CASE fmt = "SubRip" -> SrtUpdateSubtitleEntries(file, new)
      [] fmt = "VobSubIdx" -> IdxUpdateSubtitleEntries(file, new)
      [] fmt = "SubStationAlpha" -> SsaUpdateSubtitleEntries(file, new)
      [] fmt = "MicroDVD" -> MdvdUpdateSubtitleEntries(f, file, new)
      [] fmt = "VobSubSub" -> VobUpdateSubtitleEntries(file, new)

ToData(fmt, file) ==
    CASE fmt = "SubRip" -> SrtToData(file)
      [] fmt = "VobSubIdx" -> IdxToData(file)
      [] fmt = "SubStationAlpha" -> SsaToData(file)
      [] fmt = "VobSubSub" -> VobToData(file)

\* The texts to_data can return for the file.
ToDataAll(fmt, file) == IF fmt = "MicroDVD" THEN MdvdToData(file) ELSE {ToData(fmt, file)}

----------------------------------------------------------------------------
(* Format detection in formats/mod.rs. An extension is an Option<&OsStr>:  *)
(* None or Some(text). An Option<SubtitleFormat> is the name of the format  *)
(* or "None".                                                               *)

\* get_subtitle_format_by_extension
get_subtitle_format_by_extension(extension) ==
    IF extension = Some(<<"s", "r", "t">>) THEN "SubRip"
    ELSE IF extension = Some(<<"s", "s", "a">>) \/ extension = Some(<<"a", "s", "s">>)
         THEN "SubStationAlpha"
    ELSE IF extension = Some(<<"i", "d", "x">>) THEN "VobSubIdx"
    ELSE "None"

\* is_valid_extension_for_subtitle_format
is_valid_extension_for_subtitle_format(extension, fmt) ==
    CASE fmt = "SubRip" -> extension = Some(<<"s", "r", "t">>)
      [] fmt = "SubStationAlpha" ->
            extension = Some(<<"s", "r", "t">>) \/ extension = Some(<<"s", "r", "t">>)
      [] fmt = "VobSubIdx" -> extension = Some(<<"i", "d", "x">>)
      [] fmt = "VobSubSub" -> extension = Some(<<"s", "u", "b">>)
      [] fmt = "MicroDVD" -> extension = Some(<<"s", "u", "b">>)

\* ok_or_else(|| ErrorKind::UnknownFileFormat.into()) on an Option<SubtitleFormat>
ok_or_unknown_file_format(opt) ==
    IF opt = "None" THEN [ok |-> FALSE, val |-> "", err |-> "UnknownFileFormat"]
    ELSE [ok |-> TRUE, val |-> opt, err |-> ""]

\* get_subtitle_format_by_extension_err
get_subtitle_format_by_extension_err(extension) ==
    ok_or_unknown_file_format(get_subtitle_format_by_extension(extension))

\* The VobSub .sub magic number: the bytes 00 00 01 BA.
VobSubMagic == <<0, 0, 1, 186>>

\* Mutant of get_subtitle_format: the whole content is compared with the magic number.
get_subtitle_format_whole_content(extension, content) ==
    IF extension = Some(<<"s", "u", "b">>)
    THEN (IF content = VobSubMagic THEN "VobSubSub" ELSE "MicroDVD")
    ELSE get_subtitle_format_by_extension(extension)

\* get_subtitle_format: content.iter().take(4) is the first four bytes of the content,
\* or all of a shorter content.
get_subtitle_format(extension, content) ==
    IF extension = Some(<<"s", "u", "b">>)
    THEN (IF SubSeq(content, 1, IF Len(content) < 4 THEN Len(content) ELSE 4) = VobSubMagic
          THEN "VobSubSub" ELSE "MicroDVD")
    ELSE get_subtitle_format_by_extension(extension)

\* get_subtitle_format_err
get_subtitle_format_err(extension, content) ==
    ok_or_unknown_file_format(get_subtitle_format(extension, content))

----------------------------------------------------------------------------
(* The inputs: texts built line by line from the lines below               *)

MaxLines == 5
MaxMdvdLines == 3
MaxUpdates == 2

LF == <<"\n">>
CRLF == <<"\r", "\n">>
CR == <<"\r">>

SrtI1 == <<"1">>
SrtI2 == <<" ", "0", "7", "\t">>
SrtT1 == <<"0", "0", ":", "0", "0", ":", "0", "1", ",", "5", "0", "0", " ", "-", "-", ">", " ", "0", "0", ":", "0", "0", ":", "0", "3", ",", "7", "0", "0">>
SrtT2 == <<" ", "0", ":", "0", ":", "4", ",", "5", "\t", "-", "-", ">", "1", ":", "0", "2", ":", "0", "3", ",", "0", "0", "4", " ">>
SrtD1 == <<"a">>
SrtD2 == <<"b", " ", "c">>
SrtWs == <<" ", "\t">>
\* An index greater than i64::MAX.
SrtIBig == <<"9", "9", "9", "9", "9", "9", "9", "9", "9", "9", "9", "9", "9", "9", "9", "9", "9", "9", "9", "9">>

SrtIndexLines == {<<SrtI1, LF>>, <<SrtI2, CRLF>>}
SrtTimingLines == {<<SrtT1, CRLF>>, <<SrtT2, LF>>}
SrtDialogLines == {<<SrtD1, CRLF>>, <<SrtD2, CR>>}

\* The lines that may follow the text s: after a line the parser rejects, none. Where
\* an index or a timestamp is expected, one of the lines is none.
SrtNextLines(s) ==
    LET After(r) ==
            IF ~r.ok THEN {}
            ELSE CASE r.state = "Emptyline" ->
                        SrtIndexLines \cup {<<SrtWs, CRLF>>, <<SrtD1, LF>>, <<SrtIBig, LF>>}
                   [] r.state = "Index" -> SrtTimingLines \cup {<<SrtI1, LF>>}
                   [] OTHER -> SrtDialogLines \cup {<<<<>>, LF>>}
    IN After(SrtParseFile(s))

\* Whole files: two blocks with mixed line endings and no line ending at the end (as in
\* parse_srt_test), a block without dialog between two blocks, a BOM before a block.
SrtExamples ==
    { Concat(<<SrtI1, LF, SrtT1, CRLF, SrtD1, CRLF, SrtD2, CR, SrtWs, LF,
               SrtI2, CRLF, SrtT2, LF, SrtD2>>),
      Concat(<<SrtI1, LF, SrtT1, CRLF, SrtD1, LF, LF,
               SrtI1, LF, SrtT2, CRLF, SrtWs, LF, SrtI2, LF, SrtT1, LF, SrtD1, LF>>),
      Concat(<<BOM8, SrtI1, LF, SrtT1, LF, SrtD1, LF, SrtD1, LF, LF,
               SrtI1, LF, SrtT1, LF, SrtD2, LF>>) }

IdxC1 == <<"#", " ", "i", "d", ":", " ", "e", "n">>
IdxT1 == <<"t", "i", "m", "e", "s", "t", "a", "m", "p", ":", " ", "0", "0", ":", "0", "0", ":", "0", "1", ":", "5", "0", "0", ",", " ", "f", "i", "l", "e", "p", "o", "s", ":", " ", "0">>
IdxT2 == <<" ", "t", "i", "m", "e", "s", "t", "a", "m", "p", ":", "0", ":", "1", ":", "2", ":", "3">>
IdxT3 == <<"t", "i", "m", "e", "s", "t", "a", "m", "p", ":", "\t", "0", "1", ":", "0", "2", ":", "0", "3", ":", "0", "0", "4", ",">>
IdxBad1 == <<"t", "i", "m", "e", "s", "t", "a", "m", "p", ":", " ", "1", ":", "2">>
IdxBad2 == <<"\f", "t", "i", "m", "e", "s", "t", "a", "m", "p", ":", " ", "0", ":", "0", ":", "0", ":", "0">>

\* The lines that may follow the text s: after a line the parser rejects, none.
IdxNextLines(s) ==
    IF ~IdxParseInner(s).ok THEN {}
    ELSE {<<IdxC1, CRLF>>, <<IdxT1, LF>>, <<IdxT2, CR>>, <<IdxBad1, LF>>, <<IdxBad2, LF>>}

\* Whole files: no timestamp, one timestamp, three timestamps.
IdxExamples ==
    { Concat(<<IdxC1, LF, LF>>),
      Concat(<<IdxC1, LF, IdxT1, LF>>),
      Concat(<<BOM8, IdxC1, CRLF, IdxT1, LF, IdxT2, CR, IdxC1, LF, IdxT3>>) }

SsaH1 == <<"[", "E", "v", "e", "n", "t", "s", "]">>
SsaH2 == <<"[", "S", "c", "r", "i", "p", "t", " ", "I", "n", "f", "o", "]">>
SsaC1 == <<";", " ", "c">>
SsaF1 == <<"F", "o", "r", "m", "a", "t", ":", " ", "S", "t", "a", "r", "t", ",", " ", "E", "n", "d", ",", " ", "T", "e", "x", "t">>
SsaF2 == <<"F", "o", "r", "m", "a", "t", ":", " ", "T", "e", "x", "t">>
SsaF3 == <<"F", "o", "r", "m", "a", "t", ":", " ", "L", "a", "y", "e", "r", ",", " ", "S", "t", "a", "r", "t", ",", "E", "n", "d", " ", ",", "T", "e", "x", "t">>
\* Headers the parser does not take: a field twice, the text not last, a space first.
SsaFDup == <<"F", "o", "r", "m", "a", "t", ":", "E", "n", "d", ",", "S", "t", "a", "r", "t", ",", " ", "E", "n", "d", ",", "T", "e", "x", "t">>
SsaFNotLast == <<"F", "o", "r", "m", "a", "t", ":", " ", "S", "t", "a", "r", "t", ",", "T", "e", "x", "t", ",", "E", "n", "d">>
SsaFIndented == <<" ", "F", "o", "r", "m", "a", "t", ":", " ", "S", "t", "a", "r", "t", ",", " ", "E", "n", "d", ",", " ", "T", "e", "x", "t">>
SsaD1 == <<"D", "i", "a", "l", "o", "g", "u", "e", ":", " ", "0", ":", "0", "0", ":", "0", "1", ".", "5", "0", ",", "0", ":", "0", "0", ":", "0", "3", ".", "7", "0", ",", "a", ",", "b">>
SsaD2 == <<" ", "D", "i", "a", "l", "o", "g", "u", "e", ":", "\t", "0", ":", "0", ":", "1", ".", "5", " ", ",", "1", ":", "0", "2", ":", "0", "3", ":", "0", "4", ",", "x", " ", "y", " ">>
SsaD3 == <<"D", "i", "a", "l", "o", "g", "u", "e", ":", " ", "0", ",", "0", ":", "0", "0", ":", "0", "1", ".", "5", "0", ",", "0", ":", "0", "0", ":", "0", "3", ".", "7", "0", ",", "a", ",", "b">>
SsaD4 == <<"D", "i", "a", "l", "o", "g", "u", "e", ":", " ", "1", ",", " ", "0", ":", "0", ":", "1", ".", "5", " ", ",", "1", ":", "0", "2", ":", "0", "3", ":", "0", "4", ",", "x", " ", "y", " ">>
SsaDBad == <<"D", "i", "a", "l", "o", "g", "u", "e", ":", " ", "x", ",", "0", ":", "0", "0", ":", "0", "0", ".", "0", "0", ",", "a">>
\* Dialogue lines with one comma: one that ends with the comma, one that goes on.
SsaDShort == <<"D", "i", "a", "l", "o", "g", "u", "e", ":", " ", "0", ":", "0", "0", ":", "0", "1", ".", "5", "0", ",">>
SsaDFew == <<"D", "i", "a", "l", "o", "g", "u", "e", ":", " ", "0", ":", "0", "0", ":", "0", "1", ".", "5", "0", ",", "a">>

\* The lines that may follow the text s: headers and format lines while the parser
\* misses the format line of the section Events, Dialogue and other lines once it has
\* it, none after a line the parser rejects. The headers the parser does not take come
\* right after the line [Events].
SsaNextLines(s) ==
    LET After(r) ==
            IF r.ok THEN {<<SsaD1, CRLF>>, <<SsaD2, CR>>, <<SsaDBad, LF>>, <<SsaC1, LF>>,
                          <<SsaDShort, LF>>, <<SsaDFew, LF>>}
            ELSE IF r.err = "SsaFieldsInfoNotFound"
                 THEN {<<SsaH1, LF>>, <<SsaH1, CR>>, <<SsaF1, LF>>, <<SsaF2, CRLF>>}
                        \cup (IF EndsWith(s, SsaH1 \o LF)
                              THEN {<<SsaFDup, LF>>, <<SsaFNotLast, LF>>, <<SsaFIndented, LF>>}
                              ELSE {})
            ELSE {}
    IN After(SsaParseInner(s))

\* Whole files: two sections and two Dialogue lines with \r\n, a BOM and one Dialogue
\* line with \n, no Dialogue line.
SsaExamples ==
    { Concat(<<SsaH2, CRLF, SsaC1, CRLF, SsaH1, CRLF, SsaF3, CRLF, SsaD3, CRLF, SsaD4>>),
      Concat(<<BOM8, SsaH1, LF, SsaF1, LF, SsaC1, LF, SsaD1, LF>>),
      Concat(<<SsaH1, LF, SsaF1, LF>>) }

MdvdL1 == <<"{", "0", "}", "{", "2", "5", "}", "{", "y", ":", "i", "}", "H", "e", "l", "l", "o", "!", "|", "{", "Y", ":", "b", "}", "t", "w", "o">>
MdvdL2 == <<"{", "1", "}", "{", "3", "0", "}", "x">>
MdvdL3 == <<"{", "1", "0", "}", "{", "-", "2", "0", "}">>

\* Lines with the frames of MdvdL1 and the formatting y:i, with the formatting y:i and
\* other frames, with a text that ends with a bare \r, and a line that is no subtitle.
MdvdL4 == <<"{", "0", "}", "{", "2", "5", "}", "{", "y", ":", "i", "}", "c">>
MdvdL5 == <<"{", "0", "}", "{", "2", "6", "}", "{", "y", ":", "i", "}", "d">>
MdvdL6 == <<"{", "0", "}", "{", "2", "5", "}", "a", "\r">>
MdvdBad == <<"x">>

\* A line with the frames of MdvdL1 and a formatting whose first character is a digit.
MdvdL7 == <<"{", "0", "}", "{", "2", "5", "}", "{", "1", "}", "e">>

\* The lines that may follow the text s: after a line the parser rejects, none.
MdvdNextLines(s) ==
    IF ~MdvdParseFile(s).ok THEN {}
    ELSE {<<MdvdL1, LF>>, <<MdvdL2, CRLF>>, <<MdvdL3, LF>>, <<MdvdL4, LF>>, <<MdvdL5, LF>>,
          <<MdvdL6, CRLF>>, <<MdvdL7, LF>>, <<MdvdBad, LF>>}

\* Whole files: two lines, one of two single lines; a BOM and one line; no line.
MdvdExamples ==
    { Concat(<<MdvdL1, LF, MdvdL2, CRLF>>), Concat(<<BOM8, MdvdL3>>), <<>> }

\* The frame rates of the MicroDVD files; the other formats do not read fps.
FpsOf(fmt) == IF fmt = "MicroDVD" THEN {25, 30} ELSE {0}

\* The subtitles decoded from VobSub bytes: none, and two, of which one starts at
\* 1/16 s = 62.5 ms.
VobExamples == { <<>>, << <<1, 24>>, <<40, 59>> >> }

NextLines(fmt, s) ==
    CASE fmt = "SubRip" -> SrtNextLines(s)
      [] fmt = "VobSubIdx" -> IdxNextLines(s)
      [] fmt = "SubStationAlpha" -> SsaNextLines(s)
      [] fmt = "MicroDVD" -> MdvdNextLines(s)

Examples(fmt) ==
    CASE fmt = "SubRip" -> SrtExamples
      [] fmt = "VobSubIdx" -> IdxExamples
      [] fmt = "SubStationAlpha" -> SsaExamples
      [] fmt = "MicroDVD" -> MdvdExamples
      [] fmt = "VobSubSub" -> VobExamples

LineCount(s) == Len(get_lines_non_destructive(split_bom(s)[2]))

\* The number of lines up to which a text of the format grows.
MaxLinesOf(fmt) == IF fmt = "MicroDVD" THEN MaxMdvdLines ELSE MaxLines

\* The text ends a line: another line can follow it.
AtLineStart(s) == IF s \in {<<>>, BOM8, BOM16} THEN TRUE ELSE s[Len(s)] \in {"\n", "\r"}

----------------------------------------------------------------------------
(* The entries handed to update_subtitle_entries                           *)

NewEntryA == Entry(1500, 3700, None)
NewEntryB == Entry(-500, 3723004, Some(<<"x", "\n", "y">>))

\* The list of n entries A, B, A, ...
RECURSIVE Alternating(_)
Alternating(n) ==
    IF n = 0 THEN <<>>
    ELSE Append(Alternating(n - 1), IF n % 2 = 1 THEN NewEntryA ELSE NewEntryB)

\* The lists given to update_subtitle_entries on a file with the entries cur: cur
\* itself, lists of the same length, and lists one shorter and one longer.
UpdateLists(cur) ==
    {cur, Alternating(Len(cur)), [i \in 1..Len(cur) |-> NewEntryB], Append(cur, NewEntryA)}
        \cup (IF cur = <<>> THEN {} ELSE {Take(cur, Len(cur) - 1)})

----------------------------------------------------------------------------
(* The state machine                                                       *)

Formats == {"SubRip", "SubStationAlpha", "VobSubIdx", "VobSubSub", "MicroDVD"}

NoOp == [op |-> "none", arg |-> <<>>, res |-> "", pre |-> <<>>, err |-> "", line |-> 0]

InitFor(fmts, inputs) ==
    /\ format \in fmts
    /\ fps \in FpsOf(format)
    /\ input \in inputs \cup Examples(format)
    /\ pc = "input"
    /\ v = <<>>
    /\ nUpd = 0
    /\ last = NoOp

\* The caller extends the text by one line, with its line ending or as the last line.
AddLine ==
    /\ pc = "input"
    /\ AtLineStart(input)
    /\ LineCount(input) < MaxLinesOf(format)
    /\ \E l \in NextLines(format, input) :
         \E newl \in {l[2], <<>>} :
            /\ l[1] \o newl # <<>>
            /\ input' = input \o l[1] \o newl
    /\ UNCHANGED <<format, fps, pc, v, nUpd, last>>

\* The outcome of a call of the parser: Ok, Err or a panic.
ParseOutcome(r) == IF r.ok THEN "ok" ELSE IF r.err = "panic" THEN "panic" ELSE "err"

\* The parser returned r to the operation op, which had the text arg and the file pre.
Parsed(r, op, arg, pre) ==
    /\ pc' = IF r.ok THEN "parsed" ELSE IF r.err = "panic" THEN "panic" ELSE "error"
    /\ v' = r.parts
    /\ last' = [NoOp EXCEPT !.op = op, !.arg = arg, !.res = ParseOutcome(r),
                            !.err = r.err, !.line = r.line, !.pre = pre]

\* parse_str / parse_from_string
Parse ==
    /\ pc = "input"
    /\ Parsed(ParseStr(format, fps, input), "parse", <<>>, <<>>)
    /\ UNCHANGED <<format, fps, input, nUpd>>

\* The parser on the text d, which to_data gave for the file.
ReparseData(d) == Parsed(ParseStr(format, fps, d), "reparse", d, v)

\* to_data of the file as parsed, and the parser on one of the texts it can return.
Reparse ==
    /\ pc = "parsed"
    /\ last.op = "parse"
    /\ \E d \in ToDataAll(format, v) : ReparseData(d)
    /\ UNCHANGED <<format, fps, input, nUpd>>

\* update_subtitle_entries(new) returned r.
Updated(r, new) ==
    /\ pc' = IF r.res = "panic" THEN "panic" ELSE "parsed"
    /\ v' = r.file
    /\ nUpd' = IF r.res = "ok" THEN nUpd + 1 ELSE nUpd
    /\ last' = [NoOp EXCEPT !.op = "update", !.arg = new, !.res = r.res, !.pre = v]

\* update_subtitle_entries(new)
Update ==
    /\ pc = "parsed"
    /\ last.op \in {"parse", "update"}
    /\ nUpd < MaxUpdates
    /\ \E new \in UpdateLists(GetSubtitleEntries(format, fps, v).val) :
          Updated(UpdateSubtitleEntries(format, fps, v, new), new)
    /\ UNCHANGED <<format, fps, input>>

\* The pairs (timespan, line) handed to SrtFile::create.
MaxCreate == 2

CreatePairs ==
    { [start |-> t[1], end |-> t[2], line |-> l] :
        t \in {<<1500, 3700>>, <<4500, 8700>>, <<0, 360000000>>},
        l \in {<<"l", "i", "n", "e", "1">>, <<"l", "i", "n", "e", "2">>, <<"a", "\n", "b">>} }

\* One more pair for SrtFile::create; `input` holds the list of pairs.
AddPair ==
    /\ pc = "input"
    /\ Len(input) < MaxCreate
    /\ \E p \in CreatePairs : input' = Append(input, p)
    /\ UNCHANGED <<format, fps, pc, v, nUpd, last>>

\* SrtFile::create(input)
Create ==
    /\ pc = "input"
    /\ v' = SrtCreate(input)
    /\ pc' = "created"
    /\ last' = [NoOp EXCEPT !.op = "create", !.arg = input, !.res = "ok"]
    /\ UNCHANGED <<format, fps, input, nUpd>>

\* to_data of the file that SrtFile::create returned
CreatedToData ==
    /\ pc = "created"
    /\ last.op = "create"
    /\ last' = [NoOp EXCEPT !.op = "to_data", !.arg = SrtToData(v), !.res = "ok", !.pre = v]
    /\ UNCHANGED <<format, fps, input, pc, v, nUpd>>

\* The contents and extensions handed to the detection functions.
MaxContent == 5

ContentBytes == {0, 1, 186}

Extensions ==
    { None, Some(<<>>), Some(<<"s", "r", "t">>), Some(<<"s", "s", "a">>), Some(<<"a", "s", "s">>),
      Some(<<"i", "d", "x">>), Some(<<"s", "u", "b">>), Some(<<"t", "x", "t">>),
      Some(<<"S", "R", "T">>) }

\* One more byte of content; `input` holds the bytes.
AddByte ==
    /\ pc = "input"
    /\ Len(input) < MaxContent
    /\ \E b \in ContentBytes : input' = Append(input, b)
    /\ UNCHANGED <<format, fps, pc, v, nUpd, last>>

\* The function op, called with the extension ext, returned res.
Detected(op, ext, res) ==
    /\ pc = "input"
    /\ pc' = "detected"
    /\ last' = [NoOp EXCEPT !.op = op, !.arg = ext, !.res = res]
    /\ UNCHANGED <<format, fps, input, v, nUpd>>

GetSubtitleFormatByExtension ==
    \E ext \in Extensions :
        Detected("get_subtitle_format_by_extension", ext, get_subtitle_format_by_extension(ext))

GetSubtitleFormatByExtensionErr ==
    \E ext \in Extensions :
        Detected("get_subtitle_format_by_extension_err", ext, get_subtitle_format_by_extension_err(ext))

GetSubtitleFormat ==
    \E ext \in Extensions :
        Detected("get_subtitle_format", ext, get_subtitle_format(ext, input))

GetSubtitleFormatErr ==
    \E ext \in Extensions :
        Detected("get_subtitle_format_err", ext, get_subtitle_format_err(ext, input))

\* is_valid_extension_for_subtitle_format(ext, format)
IsValidExtension ==
    \E ext \in Extensions :
        Detected("is_valid_extension_for_subtitle_format", ext,
                 is_valid_extension_for_subtitle_format(ext, format))

\* The subtitles of a VobSub .sub buffer: start and end in sixteenths of a second.
MaxSubtitles == 3

VobSubtitles == {<<1, 24>>, <<40, 59>>, <<0, 0>>, <<3, 2>>}

\* One more subtitle in the buffer handed to VobFile::parse.
AddSubtitle ==
    /\ pc = "input"
    /\ Len(input) < MaxSubtitles
    /\ \E p \in VobSubtitles : input' = Append(input, p)
    /\ UNCHANGED <<format, fps, pc, v, nUpd, last>>

\* to_data of the file, after parsing and any updates
Write ==
    /\ pc = "parsed"
    /\ last.op \in {"parse", "update"}
    /\ last' = [NoOp EXCEPT !.op = "to_data", !.arg = ToData(format, v), !.res = "ok", !.pre = v]
    /\ UNCHANGED <<format, fps, input, pc, v, nUpd>>

\* The components handed to from_components, the lengths of the time spans and the
\* deltas they are shifted by.
MaxAssigns == 2

TimeComponents == {0, 1, -1} \X {0, 59, -61} \X {0, 1, 3} \X {0, 999, -1, -2000}

TimeDeltas == {-1500, 1, 2000, 3723004}

\* TimeSpan::new(p, p + len) for p = TimePoint::from_components(c); `input` holds c.
FromComponents ==
    /\ pc = "input"
    /\ \E c \in TimeComponents, len \in {0, 2200} :
          /\ input' = c
          /\ v' = [start |-> from_components(c[1], c[2], c[3], c[4]),
                   end |-> from_components(c[1], c[2], c[3], c[4]) + len]
          /\ last' = [NoOp EXCEPT !.op = "from_components", !.arg = c, !.res = "ok"]
    /\ pc' = "time"
    /\ UNCHANGED <<format, fps, nUpd>>

\* TimeSpan::add_assign: self.start += r; self.end += r
TimeSpanAddAssign ==
    /\ pc = "time"
    /\ nUpd < MaxAssigns
    /\ \E r \in TimeDeltas :
          /\ v' = [start |-> add_assign(v.start, r), end |-> add_assign(v.end, r)]
          /\ last' = [NoOp EXCEPT !.op = "add_assign", !.arg = r, !.res = "ok", !.pre = v]
    /\ nUpd' = nUpd + 1
    /\ UNCHANGED <<format, fps, input, pc>>

\* TimeSpan::sub_assign: self.start -= r; self.end -= r
TimeSpanSubAssign ==
    /\ pc = "time"
    /\ nUpd < MaxAssigns
    /\ \E r \in TimeDeltas :
          /\ v' = [start |-> sub_assign(v.start, r), end |-> sub_assign(v.end, r)]
          /\ last' = [NoOp EXCEPT !.op = "sub_assign", !.arg = r, !.res = "ok", !.pre = v]
    /\ nUpd' = nUpd + 1
    /\ UNCHANGED <<format, fps, input, pc>>

\* The parts handed to dedup_string_parts.
MaxParts == 4

DedupParts ==
    { Filler(<<"a">>), Filler(<<>>), Filler(<<"\n">>), Part("Dialog", <<"x">>, 0),
      Part("Index", <<>>, 1), Part("TimespanBegin", <<>>, 1500) }

\* One more part in the list handed to dedup_string_parts; `input` holds the list.
AddPart ==
    /\ pc = "input"
    /\ Len(input) < MaxParts
    /\ \E p \in DedupParts : input' = Append(input, p)
    /\ UNCHANGED <<format, fps, pc, v, nUpd, last>>

\* dedup_string_parts(input, extract_fn), extract_fn yielding the text of a Filler
Dedup ==
    /\ pc = "input"
    /\ v' = dedup_string_parts(input, "Filler")
    /\ pc' = "deduped"
    /\ last' = [NoOp EXCEPT !.op = "dedup_string_parts", !.arg = input, !.res = "ok"]
    /\ UNCHANGED <<format, fps, input, nUpd>>

\* The texts handed to get_lines_non_destructive.
MaxChars == 5

\* One more character in the text handed to get_lines_non_destructive.
AddChar ==
    /\ pc = "input"
    /\ Len(input) < MaxChars
    /\ \E c \in {"a", " ", "\r", "\n"} : input' = Append(input, c)
    /\ UNCHANGED <<format, fps, pc, v, nUpd, last>>

\* get_lines_non_destructive(input)
GetLines ==
    /\ pc = "input"
    /\ v' = get_lines_non_destructive(input)
    /\ pc' = "lines"
    /\ last' = [NoOp EXCEPT !.op = "get_lines_non_destructive", !.arg = input, !.res = "ok"]
    /\ UNCHANGED <<format, fps, input, nUpd>>

\* Texts built line by line, parsed, written and parsed again.
NextText == AddLine \/ Parse \/ Reparse

\* Whole files parsed and updated.
Next == Parse \/ Update

Spec == InitFor(Formats, {}) /\ [][Next]_vars

SpecSrt == InitFor({"SubRip"}, {<<>>, BOM8, BOM16}) /\ [][NextText]_vars

\* Texts built line by line, parsed and updated.
NextEntries == AddLine \/ Parse \/ Update

SpecSsa == InitFor({"SubStationAlpha"}, {<<>>, BOM8}) /\ [][NextText]_vars

SpecIdx == InitFor({"VobSubIdx"}, {<<>>, BOM8}) /\ [][NextEntries]_vars

SpecMdvd == InitFor({"MicroDVD"}, {<<>>, BOM8}) /\ [][NextText]_vars

\* VobSub buffers built subtitle by subtitle, parsed, updated and written.
NextVob == AddSubtitle \/ Parse \/ Update \/ Write

SpecVob == InitFor({"VobSubSub"}, {}) /\ [][NextVob]_vars

\* Time spans made from components and shifted by deltas. InitCreate is the state
\* before any call: no text, no file.
NextTime == FromComponents \/ TimeSpanAddAssign \/ TimeSpanSubAssign

\* Files made by SrtFile::create from lists of pairs, and written.
NextCreate == AddPair \/ Create \/ CreatedToData

InitCreate ==
    /\ format = "SubRip"
    /\ fps = 0
    /\ input = <<>>
    /\ pc = "input"
    /\ v = <<>>
    /\ nUpd = 0
    /\ last = NoOp

SpecCreate == InitCreate /\ [][NextCreate]_vars

SpecTime == InitCreate /\ [][NextTime]_vars

\* Texts built character by character, and split into lines.
NextLinesOf == AddChar \/ GetLines

SpecLines == InitCreate /\ [][NextLinesOf]_vars

\* Lists of parts built part by part, and merged.
NextDedup == AddPart \/ Dedup

SpecDedup == InitCreate /\ [][NextDedup]_vars

\* Contents built byte by byte, and one call of a detection function.
NextDetect ==
    \/ AddByte
    \/ GetSubtitleFormatByExtension
    \/ GetSubtitleFormatByExtensionErr
    \/ GetSubtitleFormat
    \/ GetSubtitleFormatErr
    \/ IsValidExtension

InitDetect ==
    /\ format \in Formats
    /\ fps = 0
    /\ input = <<>>
    /\ pc = "input"
    /\ v = <<>>
    /\ nUpd = 0
    /\ last = NoOp

SpecDetect == InitDetect /\ [][NextDetect]_vars

----------------------------------------------------------------------------
(* Claims                                                                  *)

\* The state right after a successful parse of `input`.
JustParsed(fmt) == format = fmt /\ pc = "parsed" /\ last.op = "parse"

\* C1: for every text the SubRip parser accepts, to_data of the parsed file is the text
\* itself, byte for byte (BOM, line endings, whitespace, index numbers, timestamps, dialog).
C1_RoundTripEveryInput == JustParsed("SubRip") => SrtToData(v) = input

\* The blocks of the lines from i on, read in the cycle of C10 from state st: blank
\* lines or an index line, a timestamp line, dialog lines up to a whitespace-only line
\* or the end. cur is the entry of the open block, acc the entries of the closed blocks
\* that have a dialog line. The dialog lines are joined by sep[1] when sep is not empty,
\* else by the line ending that follows each in the text.
RECURSIVE SrtBlocks(_, _, _, _, _, _)
SrtBlocks(lines, i, st, cur, acc, sep) ==
    LET closed == IF st = "Dialog" THEN Append(acc, cur) ELSE acc
    IN IF i > Len(lines) THEN closed
       ELSE LET line == lines[i][1]
                blank == str_trim(line) = <<>>
            IN CASE st = "Emptyline" ->
                       SrtBlocks(lines, i + 1, IF blank THEN "Emptyline" ELSE "Index", cur, acc, sep)
                 [] st = "Index" ->
                       LET t == parse_timestamp_line(i - 1, line).parts
                       IN SrtBlocks(lines, i + 1, "Timing", Entry(t[2].num, t[6].num, Some(<<>>)), acc, sep)
                 [] st = "Timing" ->
                       IF blank THEN SrtBlocks(lines, i + 1, "Emptyline", cur, acc, sep)
                       ELSE SrtBlocks(lines, i + 1, "Dialog", [cur EXCEPT !.line.text = line], acc, sep)
                 [] OTHER ->
                       IF blank THEN SrtBlocks(lines, i + 1, "Emptyline", cur, closed, sep)
                       ELSE SrtBlocks(lines, i + 1, "Dialog",
                                      [cur EXCEPT !.line.text =
                                          @ \o (IF sep = <<>> THEN lines[i - 1][2] ELSE sep[1]) \o line],
                                      acc, sep)

SrtBlockEntries(s, sep) ==
    SrtBlocks(get_lines_non_destructive(split_bom(s)[2]), 1, "Emptyline", Entry(0, 0, None), <<>>, sep)

RECURSIVE TimestampFields(_, _)
TimestampFields(parts, i) ==
    IF i > Len(parts) THEN <<>>
    ELSE IF parts[i].kind = "Timestamp" THEN <<parts[i].num>> \o TimestampFields(parts, i + 1)
    ELSE TimestampFields(parts, i + 1)

\* The number of lines of the text s that are timestamp fields.
TimestampLineCount(s) ==
    LET lines == get_lines_non_destructive(split_bom(s)[2])
    IN Cardinality({i \in 1..Len(lines) : StartsWith(str_trim_left(lines[i][1]), IdxKey)})

\* C9: IdxFile::get_subtitle_entries returns without error one entry per timestamp
\* field, in file order and without text: entry i spans from timestamp i to timestamp
\* i + 1, the last one from the last timestamp to 60000 ms later, and a file without a
\* timestamp field yields the empty list.
C9_IdxEntries ==
    JustParsed("VobSubIdx") =>
        LET r == IdxGetSubtitleEntries(v)
            ts == TimestampFields(v, 1)
            n == Len(ts)
        IN /\ r.res = "ok"
           /\ Len(r.val) = n
           /\ n = TimestampLineCount(input)
           /\ \A i \in 1..n :
                /\ r.val[i].start = ts[i]
                /\ r.val[i].end = (IF i < n THEN ts[i + 1] ELSE ts[n] + 60000)
                /\ r.val[i].line = None
           /\ (n = 0 => r.val = <<>>)

\* A parsed .idx text with three timestamp fields, not in increasing order.
C9_Witness ==
    /\ JustParsed("VobSubIdx")
    /\ Len(IdxGetSubtitleEntries(v).val) = 3
    /\ IdxGetSubtitleEntries(v).val[1].end = 62003
    /\ IdxGetSubtitleEntries(v).val[2].end < IdxGetSubtitleEntries(v).val[2].start
    /\ IdxGetSubtitleEntries(v).val[3].end = IdxGetSubtitleEntries(v).val[3].start + 60000

\* The Filler parts from part i on, in file order.
RECURSIVE FillerParts(_, _)
FillerParts(parts, i) ==
    IF i > Len(parts) THEN <<>>
    ELSE IF parts[i].kind = "Filler" THEN <<parts[i].text>> \o FillerParts(parts, i + 1)
    ELSE FillerParts(parts, i + 1)

\* C8: IdxFile::update_subtitle_entries, given as many entries as the file has
\* timestamp fields, completes without failing, sets timestamp field i to the start of
\* entry i, and leaves every Filler part unchanged.
C8_IdxUpdateSetsStarts ==
    (format = "VobSubIdx" /\ last.op = "update"
        /\ Len(last.arg) = Len(TimestampFields(last.pre, 1)))
        => /\ last.res = "ok"
           /\ TimestampFields(v, 1) = [i \in 1..Len(last.arg) |-> last.arg[i].start]
           /\ FillerParts(v, 1) = FillerParts(last.pre, 1)

\* The line endings of the text s, line by line.
Terminators(s) ==
    LET lines == get_lines_non_destructive(split_bom(s)[2])
    IN [i \in 1..Len(lines) |-> lines[i][2]]

\* C6: for every text the SubStation Alpha parser accepts, to_data of the parsed file
\* has the line endings of the text, line by line: \r\n stays \r\n, \r stays \r, and a
\* last line without line ending gets none, for section headers and other lines as for
\* Dialogue lines.
C6_SsaTerminatorsKept ==
    JustParsed("SubStationAlpha") => Terminators(SsaToData(v)) = Terminators(input)

\* C5: for every text a parser accepts, the parser accepts to_data of the parsed file
\* too, and to_data of that second file is the same text again.
C5_ReparseIdempotent ==
    last.op = "reparse" => (last.res = "ok" /\ ToData(format, v) = last.arg)

\* The entries of the file before the last call, as get_subtitle_entries returns them.
EntriesBefore == GetSubtitleEntries(format, fps, last.pre)

\* The entries of the file now.
EntriesNow == GetSubtitleEntries(format, fps, v)

\* C2: for a parsed file of any format, update_subtitle_entries with the unchanged list
\* of get_subtitle_entries and then get_subtitle_entries again yields an equal list.
C2_UnchangedListKept ==
    (last.op = "update" /\ EntriesBefore.res = "ok" /\ last.arg = EntriesBefore.val)
        => (last.res # "panic" /\ EntriesNow.res = "ok" /\ EntriesNow.val = last.arg)

\* C3: update_subtitle_entries on a SubRip or SubStation Alpha file with as many
\* entries as the file has sets start and end of entry i to those of new[i] and the
\* text of entry i to that of new[i] when it is present, else keeps the text; the next
\* get_subtitle_entries returns these values in the same order.
C3_UpdateSetsEntries ==
    (format \in {"SubRip", "SubStationAlpha"} /\ last.op = "update"
        /\ EntriesBefore.res = "ok" /\ Len(last.arg) = Len(EntriesBefore.val))
        => /\ last.res = "ok"
           /\ EntriesNow.res = "ok"
           /\ EntriesNow.val =
                [i \in 1..Len(last.arg) |->
                    Entry(last.arg[i].start, last.arg[i].end,
                          IF last.arg[i].line.some THEN last.arg[i].line ELSE EntriesBefore.val[i].line)]

\* An update of two or more entries, one with and one without a text, that changed the
\* times of an entry without a text.
C3_Witness ==
    /\ format = "SubStationAlpha" /\ last.op = "update" /\ last.res = "ok"
    /\ \E i, j \in 1..Len(last.arg) :
          /\ last.arg[i].line.some /\ ~last.arg[j].line.some
          /\ EntriesBefore.val[j].start # last.arg[j].start
          /\ EntriesBefore.val[j].line.text # <<>>

TimeKinds == {"TimespanBegin", "TimespanStart", "TimespanEnd", "Timestamp"}
TextKinds == {"Dialog", "Text"}

\* The parts of the file right after parsing.
PartsAsParsed == ParseStr(format, fps, input).parts

\* C4: after any sequence of update_subtitle_entries calls on a parsed SubRip,
\* SubStation Alpha or .idx file the file has the parts it had after parsing, of which
\* every part that is neither a time nor a text is unchanged, and get_subtitle_entries
\* returns as many entries as after parsing.
C4_UpdateKeepsCountAndFillers ==
    (format \in {"SubRip", "SubStationAlpha", "VobSubIdx"} /\ pc = "parsed")
        => /\ Len(v) = Len(PartsAsParsed)
           /\ \A i \in 1..Len(v) :
                /\ v[i].kind = PartsAsParsed[i].kind
                /\ v[i].kind \notin TimeKinds \cup TextKinds => v[i] = PartsAsParsed[i]
           /\ EntriesNow.res = GetSubtitleEntries(format, fps, PartsAsParsed).res
           /\ Len(EntriesNow.val) = Len(GetSubtitleEntries(format, fps, PartsAsParsed).val)

\* Two updates of a SubRip file in a row, the second of which wrote texts.
C4_Witness ==
    /\ format = "SubRip" /\ pc = "parsed" /\ nUpd = 2
    /\ last.op = "update" /\ last.res = "ok"
    /\ \E i \in 1..Len(last.arg) : last.arg[i].line.some
    /\ v # PartsAsParsed /\ v # last.pre

\* C7: update_subtitle_entries of a SubRip, SubStation Alpha, MicroDVD or .idx file
\* with a list whose length is not the number of entries of get_subtitle_entries
\* aborts with a panic: it does not return, and nothing is truncated or padded.
C7_LengthMismatchPanics ==
    (format \in {"SubRip", "SubStationAlpha", "MicroDVD", "VobSubIdx"} /\ last.op = "update"
        /\ Len(last.arg) # Len(EntriesBefore.val))
        => (last.res = "panic" /\ pc = "panic" /\ v = last.pre)

\* An update of a file with two or more entries with a list that is one entry short.
C7_Witness ==
    /\ format = "SubStationAlpha" /\ last.op = "update" /\ last.res = "panic"
    /\ EntriesBefore.res = "ok"
    /\ Len(EntriesBefore.val) >= 2
    /\ Len(last.arg) = Len(EntriesBefore.val) - 1

\* An optionally signed integer: an optional '-' and one or more digits.
IsSignedInt(s) ==
    LET Unsigned(b) == b # <<>> /\ \A i \in 1..Len(b) : b[i] \in Digits
    IN Unsigned(IF s # <<>> /\ s[1] = "-" THEN Tail(s) ELSE s)

\* s without the spaces and tabs at its start and at its end.
Core(s) ==
    LET Right(r) == Take(r, Len(r) - Span(Rev(r), ws))
    IN Right(Drop(s, Span(s, ws)))

\* A timestamp H:MM:SS,mmm: four integers separated by ':', ':' and ','.
IsSrtTimestamp(t) ==
    \E a, b, c \in 1..Len(t) :
        /\ a < b /\ b < c
        /\ t[a] = ":" /\ t[b] = ":" /\ t[c] = ","
        /\ IsSignedInt(SubSeq(t, 1, a - 1)) /\ IsSignedInt(SubSeq(t, a + 1, b - 1))
        /\ IsSignedInt(SubSeq(t, b + 1, c - 1)) /\ IsSignedInt(SubSeq(t, c + 1, Len(t)))

\* A pair of timestamps around "-->", with spaces and tabs anywhere between them.
IsSrtTimespanLine(line) ==
    \E k \in 1..(Len(line) - 2) :
        /\ SubSeq(line, k, k + 2) = <<"-", "-", ">">>
        /\ IsSrtTimestamp(Core(Take(line, k - 1)))
        /\ IsSrtTimestamp(Core(Drop(line, k + 2)))

\* The first line from i on that C11 names, read in the cycle from state st: a
\* non-blank line that is no index where an index is expected, or a line after an index
\* line that is no pair of timestamps. [kind: the error or "", line: 0-based number]
RECURSIVE SrtOffendingLine(_, _, _)
SrtOffendingLine(lines, i, st) ==
    IF i > Len(lines) THEN [kind |-> "", line |-> 0]
    ELSE CASE st = "Emptyline" ->
                 IF str_trim(lines[i][1]) = <<>> THEN SrtOffendingLine(lines, i + 1, "Emptyline")
                 ELSE IF IsSignedInt(Core(lines[i][1])) THEN SrtOffendingLine(lines, i + 1, "Index")
                 ELSE [kind |-> "ExpectedIndexLine", line |-> i - 1]
           [] st = "Index" ->
                 IF IsSrtTimespanLine(lines[i][1]) THEN SrtOffendingLine(lines, i + 1, "Dialog")
                 ELSE [kind |-> "ExpectedTimestampLine", line |-> i - 1]
           [] OTHER ->
                 SrtOffendingLine(lines, i + 1,
                                  IF str_trim(lines[i][1]) = <<>> THEN "Emptyline" ELSE "Dialog")

\* The outcome C11 states for the SubRip parser on the text s.
SrtExpectedOutcome(s) == SrtOffendingLine(get_lines_non_destructive(split_bom(s)[2]), 1, "Emptyline")

\* C11: the SubRip parser fails exactly when the text has a non-blank line that is no
\* index where an index is expected (ExpectedIndexLine) or a line after an index line
\* that is no pair of timestamps (ExpectedTimestampLine); it then returns that error
\* with the 0-based number of the first such line and no file, and else it returns a
\* file.
C11_SrtFailsInTwoCases ==
    (format = "SubRip" /\ last.op = "parse") =>
        IF SrtExpectedOutcome(input).kind = ""
        THEN last.res = "ok"
        ELSE /\ last.res = "err"
             /\ last.err = SrtExpectedOutcome(input).kind
             /\ last.line = SrtExpectedOutcome(input).line
             /\ v = <<>>

\* The Dialogue lines of the section Events among the lines from i on, in file order.
RECURSIVE SsaEventLines(_, _, _)
SsaEventLines(lines, i, section) ==
    LET Line(t) ==
            IF IsSectionHeader(t) THEN SsaEventLines(lines, i + 1, SectionName(t))
            ELSE IF section = SsaEvents /\ StartsWith(t, SsaDialogueKey)
                 THEN <<lines[i][1]>> \o SsaEventLines(lines, i + 1, section)
            ELSE SsaEventLines(lines, i + 1, section)
    IN IF i > Len(lines) THEN <<>> ELSE Line(str_trim(lines[i][1]))

\* The positions of the commas of c, in increasing order.
CommaPositions(c) ==
    LET at == {p \in 1..Len(c) : c[p] = ","}
    IN [m \in 1..Cardinality(at) |-> CHOOSE p \in at : Cardinality({q \in at : q <= p}) = m]

\* What follows "Dialogue:" on the Dialogue line l.
DialogueContent(l) == Drop(l, Span(l, TrimSpace) + Len(SsaDialogueKey))

\* Cell j (1-based, before the text) of the content c with the commas at cp.
DialogueCell(c, cp, j) == SubSeq(c, IF j = 1 THEN 1 ELSE cp[j - 1] + 1, cp[j] - 1)

\* The entry C12 states for the content c of a Dialogue line with its commas at cp,
\* under the header fi: start and end from the cells at the header's positions, the
\* text after comma number num_fields - 1.
DialogueEntry(c, cp, fi) ==
    Entry(parse_timepoint(Core(DialogueCell(c, cp, fi.start_field_idx + 1))).val,
          parse_timepoint(Core(DialogueCell(c, cp, fi.end_field_idx + 1))).val,
          Some(Drop(c, cp[fi.num_fields - 1])))

\* The header (SsaFieldsInfo) of the text s, as the parser reads it.
SsaHeaderOf(s) ==
    LET Format(fl) == IF ~fl.ok THEN fl ELSE new_from_fields_info_line(fl.line, fl.parts)
    IN Format(get_format_info(split_bom(s)[2]))

\* C12 for a text whose header is fi and whose Dialogue lines of the section Events
\* have the contents cs: when one of them has fewer than num_fields - 1 commas the
\* parser fails; else, when it returns a file, the entries of the file are, in file
\* order, one per Dialogue line, with start and end from the cells at the header's
\* Start and End positions and the text after comma number num_fields - 1.
DialogueLinesAsStated(fi, cs) ==
    IF \E i \in 1..Len(cs) : Len(CommaPositions(cs[i])) < fi.num_fields - 1
    THEN last.res = "err"
    ELSE last.res = "ok" =>
            /\ SsaGetSubtitleEntries(v).res = "ok"
            /\ SsaGetSubtitleEntries(v).val =
                  [i \in 1..Len(cs) |-> DialogueEntry(cs[i], CommaPositions(cs[i]), fi)]

\* C12: in a SubStation Alpha text a line gives an entry exactly when it lies in the
\* section [Events] and begins, after white space, with "Dialogue:"; the cells at the
\* header's Start and End positions are the entry's start and end, what follows comma
\* number num_fields - 1 is its text, and a Dialogue line with fewer commas fails the
\* whole parse.
C12_DialogueLinesGiveEntries ==
    (format = "SubStationAlpha" /\ last.op = "parse" /\ SsaHeaderOf(input).ok) =>
        LET Lines(ls) == DialogueLinesAsStated(SsaHeaderOf(input).parts,
                                               [i \in 1..Len(ls) |-> DialogueContent(ls[i])])
        IN Lines(SsaEventLines(get_lines_non_destructive(split_bom(input)[2]), 1, <<>>))

\* The first line from i on that begins, after white space, with "Format:" inside the
\* section Events, without the white space around it; <<>> when there is none.
RECURSIVE SsaFormatLine(_, _, _)
SsaFormatLine(lines, i, section) ==
    LET Line(t) ==
            IF IsSectionHeader(t)
            THEN SsaFormatLine(lines, i + 1, SectionName(t))
            ELSE IF section = SsaEvents /\ StartsWith(t, SsaFormatKey) THEN t
            ELSE SsaFormatLine(lines, i + 1, section)
    IN IF i > Len(lines) THEN <<>> ELSE Line(str_trim(lines[i]))

\* How often the field name occurs among names.
FieldCount(names, name) == Cardinality({i \in 1..Len(names) : names[i] = name})

SsaStart == <<"S", "t", "a", "r", "t">>
SsaEnd == <<"E", "n", "d">>
SsaText == <<"T", "e", "x", "t">>

\* The errors C13 states for a header with the field names `names`.
HeaderErrors(names) ==
    (IF \E n \in {SsaStart, SsaEnd, SsaText} : FieldCount(names, n) >= 2
     THEN {"SsaDuplicateField"} ELSE {})
    \cup (IF \E n \in {SsaStart, SsaEnd, SsaText} : FieldCount(names, n) = 0
          THEN {"SsaMissingField"} ELSE {})
    \cup (IF FieldCount(names, SsaText) >= 1 /\ names[Len(names)] # SsaText
          THEN {"SsaTextFieldNotLast"} ELSE {})

\* The outcome of the parser is one C13 states for the header h (<<>>: no header).
HeaderAsStated(h) ==
    LET Names(names) ==
            IF HeaderErrors(names) = {}
            THEN last.res = "ok" \/ (last.res = "err" /\ last.err \in {"SsaDialogLineParseError", "SsaWrongTimepointFormat"})
            ELSE last.res = "err" /\ last.err \in HeaderErrors(names)
        Fields(fields) == Names([i \in 1..Len(fields) |-> str_trim(fields[i])])
    IN IF h = <<>> THEN last.res = "err" /\ last.err = "SsaFieldsInfoNotFound"
       ELSE Fields(Split(Drop(h, Len(SsaFormatKey)), ","))

\* C13: the SubStation Alpha parser returns SsaFieldsInfoNotFound when no line of a
\* section [Events] begins with "Format:", SsaDuplicateField when that header lists
\* Start, End or Text twice, SsaMissingField when one of them is absent and
\* SsaTextFieldNotLast when Text is not its last field; it accepts a header with one
\* Start, one End and Text as the last field.
C13_HeaderErrors ==
    (format = "SubStationAlpha" /\ last.op = "parse") =>
        HeaderAsStated(SsaFormatLine(str_lines(split_bom(input)[2]), 1, <<>>))

\* The frames of the record l.
MdvdKey(l) == <<l.start_frame, l.end_frame>>

\* The pairs of frames of the records, in increasing order.
MdvdKeysInOrder(lines) ==
    LET keys == {MdvdKey(lines[i]) : i \in 1..Len(lines)}
        Less(a, b) == a[1] < b[1] \/ (a[1] = b[1] /\ a[2] < b[2])
    IN [p \in 1..Cardinality(keys) |->
            CHOOSE k \in keys : Cardinality({k2 \in keys : Less(k2, k)}) = p - 1]

\* The records with the frames k, in the order of the file.
MdvdRecordsOf(lines, k) == SelectSeq(lines, LAMBDA l : MdvdKey(l) = k)

\* The lines of the text d that to_data wrote: the pieces between its "\n".
MdvdWrittenLines(d) == IF d = <<>> THEN <<>> ELSE Split(d, "\n")

\* The elements of the sequence s from position a to position b.
Elements(s, a, b) == {s[i] : i \in a..b}

\* The segments segs read from a written line are those C14 states for the group G:
\* one segment per record with its text; the tags that all records of the group have
\* (none for a group of one) come first in the first segment, first character in upper
\* case; each segment has the other tags of its record, first character in lower case.
MdvdSegmentsAsStated(segs, G) ==
    LET common == IF Len(G) = 1 THEN {}
                  ELSE {f \in FormattingSet(G[1]) : \A i \in 1..Len(G) : f \in FormattingSet(G[i])}
        n == Cardinality(common)
        own(j) == FormattingSet(G[j]) \ common
        first(j) == IF j = 1 THEN n ELSE 0
    IN /\ Len(segs) = Len(G)
       /\ Len(segs[1].fmts) >= n
       /\ Elements(segs[1].fmts, 1, n) = {uppercase_first_char(f) : f \in common}
       /\ \A j \in 1..Len(G) :
            /\ segs[j].text = G[j].text
            /\ Len(segs[j].fmts) = first(j) + Cardinality(own(j))
            /\ Elements(segs[j].fmts, first(j) + 1, Len(segs[j].fmts))
                  = {lowercase_first_char(f) : f \in own(j)}

\* The written line t is the one C14 states for the group G.
MdvdLineAsStated(t, G) ==
    LET Frames(h) ==
            /\ StartsWith(t, h)
            /\ MdvdSegmentsAsStated(MdvdSingleLines(Drop(t, Len(h)), <<>>).v, G)
    IN Frames(<<"{">> \o IntToStr(G[1].start_frame) \o <<"}", "{">>
                \o IntToStr(G[1].end_frame) \o <<"}">>)

\* The text d is written from the records as C14 states: one line per pair of
\* frames, in increasing order of the pairs.
MdvdWrittenAsStated(lines, d) ==
    LET Written(ls, keys) ==
            /\ Len(ls) = Len(keys)
            /\ \A i \in 1..Len(keys) : MdvdLineAsStated(ls[i], MdvdRecordsOf(lines, keys[i]))
    IN Written(MdvdWrittenLines(d), MdvdKeysInOrder(lines))

\* C14: MdvdFile::to_data writes the records sorted by (start_frame, end_frame), one
\* line per group of records with the same pair; the tags common to the whole group
\* are written once, before the first segment, with the first character in upper case (a
\* group of one has none), the other tags of a record in lower case before its text,
\* and the segments are joined by '|'. Parsing that output and writing it again gives
\* the same output.
C14_ToDataGroupsAndIsFixedPoint ==
    (format = "MicroDVD" /\ last.op = "reparse") =>
        /\ MdvdWrittenAsStated(last.pre, last.arg)
        /\ last.res = "ok"
        /\ MdvdToData(v) = {last.arg}

\* The records C15 states for the input line `line`: one per segment between '|', with
\* the frames of the line, the text of the segment, and as tags the tags of any segment
\* of the line that start with an upper case character (written in lower case) and the
\* other tags of the segment itself.
MdvdStatedRecords(line) ==
    LET Records(a, b, infos) ==
            LET upper == UNION {{lowercase_first_char(infos[j].v[i]) :
                                    i \in {i \in 1..Len(infos[j].v) : infos[j].v[i] # <<>> /\ infos[j].v[i][1] \in UpperCase}} :
                                j \in 1..Len(infos)}
                own(j) == {infos[j].v[i] :
                             i \in {i \in 1..Len(infos[j].v) : infos[j].v[i] = <<>> \/ infos[j].v[i][1] \notin UpperCase}}
            IN [j \in 1..Len(infos) |->
                    [start_frame |-> a, end_frame |-> b, tags |-> upper \cup own(j), text |-> infos[j].rest]]
        Segments(a, b, segs) == Records(a, b, [j \in 1..Len(segs) |-> MdvdSubInfos(segs[j], <<>>)])
        End(a, b) == Segments(a.val, b.val, Split(Tail(b.rest), "|"))
        Start(a) == End(a, number_i64(Drop(a.rest, 2)))
    IN Start(number_i64(Tail(line)))

\* The records C15 states for the lines from i on.
RECURSIVE MdvdStatedFile(_, _)
MdvdStatedFile(lines, i) ==
    IF i > Len(lines) THEN <<>> ELSE MdvdStatedRecords(lines[i]) \o MdvdStatedFile(lines, i + 1)

\* The records of the file are the records `stated`, in order, tags compared as sets.
MdvdRecordsAre(stated) ==
    /\ Len(v) = Len(stated)
    /\ \A k \in 1..Len(stated) :
          /\ v[k].start_frame = stated[k].start_frame
          /\ v[k].end_frame = stated[k].end_frame
          /\ v[k].text = stated[k].text
          /\ FormattingSet(v[k]) = stated[k].tags

\* C15: the MicroDVD parser gives, for each input line, one record per '|'-separated
\* segment, in order, all with the frames of the line; a tag that starts with an upper
\* case character, in whichever segment it stands, is attached in lower case to every
\* record of the line, and any other tag only to the record of its own segment.
C15_RecordsPerSegment ==
    JustParsed("MicroDVD") => MdvdRecordsAre(MdvdStatedFile(str_lines(split_bom(input)[2]), 1))

\* A parsed text of two or more lines with a line of two segments, the second of which
\* has a tag in upper case, which the record of the first segment got.
C15_Witness ==
    /\ JustParsed("MicroDVD")
    /\ Len(str_lines(split_bom(input)[2])) >= 2
    /\ \E k \in 1..(Len(v) - 1) :
          /\ v[k].text = <<"H", "e", "l", "l", "o", "!">>
          /\ FormattingSet(v[k]) = {<<"y", ":", "i">>, <<"y", ":", "b">>}
          /\ FormattingSet(v[k + 1]) = {<<"y", ":", "b">>}

\* The records that the written line t reads as.
MdvdRecordsWritten(t) == MdvdParseLine(0, t).parts

\* C16: MdvdFile::to_data writes two records on the same line if and only if they have
\* the same start frame and the same end frame: there are as many written lines as
\* there are distinct pairs of frames among the records, and the line of a pair has
\* the frames of the pair and one segment for each record with that pair, and none for
\* any other record, even one with the same tags.
C16_SameLineIffSameFrames ==
    (format = "MicroDVD" /\ last.op = "reparse") =>
        LET Lines(ls, keys) ==
                /\ Len(ls) = Cardinality({MdvdKey(last.pre[i]) : i \in 1..Len(last.pre)})
                /\ \A i \in 1..Len(ls) :
                      LET Same(rs, G) ==
                              /\ Len(rs) = Len(G)
                              /\ \A j \in 1..Len(rs) : MdvdKey(rs[j]) = keys[i] /\ rs[j].text = G[j].text
                      IN Same(MdvdRecordsWritten(ls[i]), MdvdRecordsOf(last.pre, keys[i]))
        IN Lines(MdvdWrittenLines(last.arg), MdvdKeysInOrder(last.pre))

\* A file was written that has two records with the same tags and the same start frame
\* but different end frames, and two records with the same frames.
C16_Witness ==
    /\ format = "MicroDVD"
    /\ last.op = "reparse"
    /\ \E i, j \in 1..Len(last.pre) :
          /\ last.pre[i].start_frame = last.pre[j].start_frame
          /\ last.pre[i].end_frame # last.pre[j].end_frame
          /\ last.pre[i].formatting = last.pre[j].formatting
          /\ last.pre[i].formatting # <<>>
    /\ \E i, j \in 1..Len(last.pre) : i # j /\ MdvdKey(last.pre[i]) = MdvdKey(last.pre[j])

\* The integer nearest to a / b for b > 0, halves away from zero.
RoundDiv(a, b) == IF a >= 0 THEN (2 * a + b) \div (2 * b) ELSE -((b - 2 * a) \div (2 * b))

\* C17: for a MicroDVD file, get_subtitle_entries gives for the frame n the time
\* round(n * 1000 / fps) milliseconds, and update_subtitle_entries gives for the time of
\* t milliseconds the frame round(t / 1000 * fps), both rounded to the nearest integer.
C17_ConversionsRound ==
    (format = "MicroDVD" /\ pc = "parsed") =>
        /\ \A i \in 1..Len(v) :
              LET e == MdvdGetSubtitleEntries(fps, v).val[i]
              IN /\ e.start = RoundDiv(v[i].start_frame * 1000, fps)
                 /\ e.end = RoundDiv(v[i].end_frame * 1000, fps)
        /\ (last.op = "update" /\ last.res = "ok") =>
              \A i \in 1..Len(v) :
                 /\ v[i].start_frame = RoundDiv(last.arg[i].start * fps, 1000)
                 /\ v[i].end_frame = RoundDiv(last.arg[i].end * fps, 1000)

\* A time of t >= 0 milliseconds as HH:MM:SS,mmm: hours, minutes, seconds in two digits
\* or more, milliseconds in three, padded with zeros.
SrtStatedTime(t) ==
    FmtPad(t \div 3600000, 2) \o <<":">> \o FmtPad((t \div 60000) % 60, 2) \o <<":">>
        \o FmtPad((t \div 1000) % 60, 2) \o <<",">> \o FmtPad(t % 1000, 3)

\* The block C18 states for the pair p at the 1-based place n.
SrtStatedBlock(n, p) ==
    NatToStr(n) \o LF \o SrtStatedTime(p.start) \o <<" ", "-", "-", ">", " ">>
        \o SrtStatedTime(p.end) \o LF \o p.line \o LF \o LF

\* C18: for a list of (timespan, text) pairs with non-negative times, to_data of
\* SrtFile::create(list) is the concatenation, in the order of the list, of the blocks
\* "<i+1>\n<start> --> <end>\n<text>\n\n": the index counts from 1 and the times are
\* written as HH:MM:SS,mmm padded with zeros.
C18_CreateWritesBlocks ==
    (pc = "created" /\ last.op = "to_data") =>
        last.arg = Concat([n \in 1..Len(input) |-> SrtStatedBlock(n, input[n])])

\* The list of create_srt_test was made into a file and written as the test expects.
C18_Witness ==
    /\ pc = "created"
    /\ last.op = "to_data"
    /\ input = << [start |-> 1500, end |-> 3700, line |-> <<"l", "i", "n", "e", "1">>],
                  [start |-> 4500, end |-> 8700, line |-> <<"l", "i", "n", "e", "2">>] >>
    /\ last.arg = <<"1", "\n", "0", "0", ":", "0", "0", ":", "0", "1", ",", "5", "0", "0", " ", "-", "-", ">", " ", "0", "0", ":", "0", "0", ":", "0", "3", ",", "7", "0", "0", "\n", "l", "i", "n", "e", "1", "\n", "\n", "2", "\n", "0", "0", ":", "0", "0", ":", "0", "4", ",", "5", "0", "0", " ", "-", "-", ">", " ", "0", "0", ":", "0", "0", ":", "0", "8", ",", "7", "0", "0", "\n", "l", "i", "n", "e", "2", "\n", "\n">>

\* The extension table: the extensions of each format.
ExtensionTable ==
    [ SubRip |-> {<<"s", "r", "t">>},
      SubStationAlpha |-> {<<"s", "s", "a">>, <<"a", "s", "s">>},
      VobSubIdx |-> {<<"i", "d", "x">>},
      VobSubSub |-> {<<"s", "u", "b">>},
      MicroDVD |-> {<<"s", "u", "b">>} ]

\* The extension ext is given and is one of the extensions of the format f.
InTable(ext, f) == ext.some /\ ext.text \in ExtensionTable[f]

\* What C19 states for the extension alone: the format of srt, ssa, ass and idx, and
\* None for sub, for any other extension and for a missing one.
StatedByExtension(ext) ==
    IF \E f \in {"SubRip", "SubStationAlpha", "VobSubIdx"} : InTable(ext, f)
    THEN CHOOSE f \in {"SubRip", "SubStationAlpha", "VobSubIdx"} : InTable(ext, f)
    ELSE "None"

\* What C19 states for the extension and the content: for sub, VobSubSub when the
\* content starts with 00 00 01 BA and MicroDVD otherwise; else as for the extension.
StatedByContent(ext, content) ==
    IF ext = Some(<<"s", "u", "b">>)
    THEN (IF Len(content) >= 4 /\ content[1] = 0 /\ content[2] = 0 /\ content[3] = 1 /\ content[4] = 186
          THEN "VobSubSub" ELSE "MicroDVD")
    ELSE StatedByExtension(ext)

\* The result r of an _err function is Err(UnknownFileFormat) if the Option is None,
\* and else the format of the Option.
StatedErr(r, opt) ==
    IF opt = "None" THEN ~r.ok /\ r.err = "UnknownFileFormat" ELSE r.ok /\ r.val = opt

C20_ValidExtensions ==
    /\ last.op = "is_valid_extension_for_subtitle_format" =>
          last.res = InTable(last.arg, format)
    /\ (last.op = "get_subtitle_format" /\ last.res # "None") =>
          is_valid_extension_for_subtitle_format(last.arg, last.res)

\* C21: a VobSub file cannot be changed through the library: update_subtitle_entries
\* returns the error UpdatingEntriesNotSupported for every list and changes nothing;
\* after any calls to_data returns the buffer given to parse, and get_subtitle_entries
\* the timespans of the parsed subtitles, each without text.
C21_VobSubImmutable ==
    (format = "VobSubSub" /\ pc = "parsed") =>
        /\ last.op = "update" => (last.res = "err" /\ v = last.pre)
        /\ last.op = "to_data" => last.arg = input
        /\ GetSubtitleEntries(format, fps, v).val =
              [i \in 1..Len(input) |->
                  Entry(TruncDiv(input[i][1] * 1000, 16), TruncDiv(input[i][2] * 1000, 16), None)]

\* A file of two subtitles or more was given a list of as many entries with other
\* times and with texts.
C21_Witness ==
    /\ format = "VobSubSub"
    /\ last.op = "update"
    /\ Len(input) >= 2
    /\ Len(last.arg) = Len(input)
    /\ last.arg # GetSubtitleEntries(format, fps, last.pre).val

\* C22: for all integers h, m, s, ms, negative ones and ones out of their natural range
\* too, from_components(h, m, s, ms) is the time of ms + 1000 * (s + 60 * (m + 60 * h))
\* milliseconds, nothing normalized or clamped, so that tuples with the same total give
\* equal values. (The components are those whose total is computed within an i64.)
C22_FromComponentsTotal ==
    (pc = "time" /\ last.op = "from_components") =>
        v.start = 3600000 * last.arg[1] + 60000 * last.arg[2] + 1000 * last.arg[3] + last.arg[4]

\* from_components(0, 0, 3, -2000) was called and gave the value of
\* from_components(0, 0, 1, 0).
C22_Witness ==
    /\ pc = "time"
    /\ last.op = "from_components"
    /\ last.arg = <<0, 0, 3, -2000>>
    /\ v.start = from_components(0, 0, 1, 0)
    /\ v.start = 1000

\* C23: for every time, negative ones too, msecs_comp() is in [0, 999], csecs_comp() in
\* [0, 99], secs_comp() in [0, 59] and mins_comp() in [0, 59].
C23_ComponentsInRange ==
    pc = "time" =>
        \A t \in {v.start, v.end} :
            /\ msecs_comp(t) \in 0..999
            /\ csecs_comp(t) \in 0..99
            /\ secs_comp(t) \in 0..59
            /\ mins_comp(t) \in 0..59

\* C29: `x -= d` leaves x equal to x - d of the value before, and `x += d` equal to
\* x + d, for time points and for the start and the end of a time span, whose length is
\* kept.
C29_CompoundAssignments ==
    pc = "time" =>
        /\ last.op = "add_assign" =>
              (v.start = last.pre.start + last.arg /\ v.end = last.pre.end + last.arg)
        /\ last.op = "sub_assign" =>
              (v.start = last.pre.start - last.arg /\ v.end = last.pre.end - last.arg)
        /\ last.op \in {"add_assign", "sub_assign"} =>
              v.end - v.start = last.pre.end - last.pre.start

\* The kinds of the TimespanBegin, TimespanEnd and Dialog parts, in file order.
SrtEntryKinds(parts) ==
    LET sel == SelectSeq(parts, LAMBDA p : p.kind \in {"TimespanBegin", "TimespanEnd", "Dialog"})
    IN [i \in 1..Len(sel) |-> sel[i].kind]

\* C24: in the parts of an accepted SubRip text, each TimespanBegin is followed by
\* exactly one TimespanEnd and then exactly one Dialog before the next TimespanBegin or
\* the end; so get_subtitle_entries and update_subtitle_entries do not abort on the file.
C24_SrtPartsInTriples ==
    (format = "SubRip" /\ pc = "parsed" /\ last.op = "parse") =>
        LET Triples(ks) ==
                /\ Len(ks) % 3 = 0
                /\ \A i \in 1..Len(ks) :
                      ks[i] = <<"TimespanBegin", "TimespanEnd", "Dialog">>[((i - 1) % 3) + 1]
            Entries(e) ==
                /\ e.res = "ok"
                /\ SrtUpdateSubtitleEntries(v, e.val).res = "ok"
        IN Triples(SrtEntryKinds(v)) /\ Entries(SrtGetSubtitleEntries(v))

\* C25: for every text, a text parser returns a file or a parse error and never aborts:
\* the conversion in number_i64 does not fail on its digits, and the line that
\* get_format_info returns meets the assertion of new_from_fields_info_line.
C25_ParsersNeverAbort ==
    last.op \in {"parse", "reparse"} => last.res \in {"ok", "err"}

\* The parts with each maximal run of adjacent Fillers made one Filler that holds the
\* texts of the run in order.
RECURSIVE MergedRuns(_)
MergedRuns(parts) ==
    LET Run(n) ==
            IF n = 0 THEN <<Head(parts)>> \o MergedRuns(Tail(parts))
            ELSE <<Filler(Concat([i \in 1..n |-> parts[i].text]))>> \o MergedRuns(Drop(parts, n))
    IN IF parts = <<>> THEN <<>>
       ELSE Run(IF \A i \in 1..Len(parts) : parts[i].kind = "Filler" THEN Len(parts)
                ELSE (CHOOSE i \in 1..Len(parts) :
                         parts[i].kind # "Filler" /\ \A j \in 1..(i - 1) : parts[j].kind = "Filler") - 1)

\* The parts that are not Fillers, in order.
NonFillers(parts) == SelectSeq(parts, LAMBDA p : p.kind # "Filler")

\* The texts of the parts, concatenated.
TextOf(parts) == Concat([i \in 1..Len(parts) |-> parts[i].text])

\* C26: dedup_string_parts returns a list without two adjacent Fillers, with the same
\* concatenated text and the same other parts in the same order; each maximal run of
\* adjacent Fillers has become one Filler with the texts of the run in order; applying
\* it again changes nothing.
C26_DedupMergesRuns ==
    (pc = "deduped" /\ last.op = "dedup_string_parts") =>
        /\ \A i \in 1..(Len(v) - 1) : ~(v[i].kind = "Filler" /\ v[i + 1].kind = "Filler")
        /\ TextOf(v) = TextOf(input)
        /\ NonFillers(v) = NonFillers(input)
        /\ v = MergedRuns(input)
        /\ dedup_string_parts(v, "Filler") = v

\* A run of three Fillers, one of them empty, before a Dialog was made one Filler.
C26_Witness ==
    /\ pc = "deduped"
    /\ last.op = "dedup_string_parts"
    /\ Len(input) = 4
    /\ Len(v) = 2
    /\ v[1].kind = "Filler"
    /\ v[1].text = <<"a", "\n">>
    /\ v[2].kind = "Dialog"
    /\ \A i \in 1..3 : input[i].kind = "Filler"

\* The pairs (content, terminator) give the text s back, every terminator is of the
\* set terms, and no content has a "\r" or a "\n".
LinesRebuild(pairs, s, terms) ==
    /\ Concat([i \in 1..Len(pairs) |-> pairs[i][1] \o pairs[i][2]]) = s
    /\ \A i \in 1..Len(pairs) :
          /\ pairs[i][2] \in terms
          /\ \A j \in 1..Len(pairs[i][1]) : pairs[i][1][j] \notin {"\r", "\n"}

\* C27 as stated: the pairs of get_lines_non_destructive(s) give s back, every terminator
\* is "\n", "\r\n", a bare "\r" or empty, no content has a "\r" or a "\n", and the final
\* pair has an empty terminator.
C27_FinalTerminatorEmpty ==
    (pc = "lines" /\ last.op = "get_lines_non_destructive") =>
        /\ LinesRebuild(v, input, {<<"\n">>, <<"\r", "\n">>, <<"\r">>, <<>>})
        /\ Len(v) > 0
        /\ v[Len(v)][2] = <<>>

\* C27, amended: the pairs of get_lines_non_destructive(s) give s back, every terminator
\* is "\n", "\r\n", a bare "\r" or empty, and no content has a "\r" or a "\n"; only the
\* final pair can have an empty terminator, and it has one exactly when s is not empty
\* and does not end with "\r" or "\n"; the empty text gives no pair.
C27_LinesRebuildText ==
    (pc = "lines" /\ last.op = "get_lines_non_destructive") =>
        /\ LinesRebuild(v, input, {<<"\n">>, <<"\r", "\n">>, <<"\r">>, <<>>})
        /\ \A i \in 1..(Len(v) - 1) : v[i][2] # <<>>
        /\ (v = <<>>) <=> (input = <<>>)
        /\ v # <<>> => ((v[Len(v)][2] = <<>>) <=> (input[Len(input)] \notin {"\r", "\n"}))

\* A text with a bare "\r" and a "\r\n" in it that ends with a "\n" was split.
C27_Witness ==
    /\ pc = "lines"
    /\ last.op = "get_lines_non_destructive"
    /\ v = << <<<<"a">>, <<"\r">>>>, <<<<>>, <<"\r", "\n">>>>, <<<<>>, <<"\n">>>> >>

\* C28: every SrtFile, SsaFile and IdxFile that parsing, SrtFile::create and
\* update_subtitle_entries can give has its fillers merged: no two adjacent parts are
\* both Filler.
C28_FillersMerged ==
    (format \in {"SubRip", "SubStationAlpha", "VobSubIdx"} /\ pc \in {"parsed", "created"}) =>
        \A i \in 1..(Len(v) - 1) : ~(v[i].kind = "Filler" /\ v[i + 1].kind = "Filler")

\* A record as C30 compares it: frames, set of tags, text.
MdvdRecord(l) == <<l.start_frame, l.end_frame, FormattingSet(l), l.text>>

\* How many of the records of lines are the record r.
MdvdCount(lines, r) == Cardinality({i \in 1..Len(lines) : MdvdRecord(lines[i]) = r})

\* C30: parsing to_data(f) of a parsed MicroDVD file f with the same fps gives a file
\* with the same multiset of records (start_frame, end_frame, set of tags, text):
\* writing common tags once and reading them back neither removes a tag from a record
\* nor adds one, whatever the first character of the tag is.
C30_ReparseKeepsRecords ==
    (format = "MicroDVD" /\ last.op = "reparse") =>
        /\ last.res = "ok"
        /\ Len(v) = Len(last.pre)
        /\ \A i \in 1..Len(last.pre) :
              MdvdCount(v, MdvdRecord(last.pre[i])) = MdvdCount(last.pre, MdvdRecord(last.pre[i]))

====
